---- MODULE Spec2Model ----
(***************************************************************************)
(* Random champion selector: the client store (src/src/store/useAppStore.ts)*)
(* and the MongoDB backend (src/server-mongodb.cjs) as one state machine.   *)
(*                                                                          *)
(* The model keeps two of the five lanes (the code treats lanes alike) and  *)
(* two champions, one playing both lanes and one playing a single lane.     *)
(* One browser client talks to one backend; a second tab of the same        *)
(* browser, sharing localStorage, looks on.  A store action is one atomic   *)
(* step: its awaits are resolved inside the step, and every network call it *)
(* makes either reaches the backend or fails (chosen with \E).  The         *)
(* setTimeout that randomizeChampion schedules is a separate step           *)
(* (TimerSave).  Date.now() is a clock that every read advances.            *)
(***************************************************************************)
EXTENDS Integers, Sequences, FiniteSets, TLC

(***************************************************************************)
(* Bounds of the model.                                                     *)
(***************************************************************************)
\* Largest value of the clock: the number of session ids and team
\* timestamps that can be allocated in one behaviour.
MaxTime == 3
\* Largest number of documents in the teams collection, and of saved teams
\* in the store when the admin form adds one.
MaxTeams == 1
\* Largest number of documents in the teams collection when another
\* client posts a team.
MaxLedger == 2
\* Largest number of setTimeout callbacks pending at once.
MaxTimers == 1

(***************************************************************************)
(* Static data: lanes, champions, the champion-roles collection.            *)
(***************************************************************************)
Lanes == {"top", "mid"}

Champions == {"A", "B"}

\* null of a lane's selection
NoChampion == "null"

\* a record of available-champions without a lane field (the new structure)
NoLane == "none"

\* The champion-roles collection: A plays two lanes, B one.
RoleLanes(c) ==
  CASE c = "A" -> {"top", "mid"}
    [] c = "B" -> {"top"}

\* GET /api/champion-pools: the champions of a lane
ChampionPool(lane) == {c \in Champions : lane \in RoleLanes(c)}

\* the order in which initialize walks the champion-roles documents and
\* their lanes arrays
InitializeOrder ==
  << <<"top", "B">>, <<"top", "A">>, <<"mid", "A">> >>

VARIABLES
  \* ---- backend (MongoDB collections)
  availableChampionsCollection, \* set of [champion, lane, isAvailable]
  teamsCollection,              \* sequence of saved teams, insertion order
  championRolesCollection,      \* set of [champion, lanes]
  \* ---- client store
  selectedChampions,            \* [Lanes -> Champions \cup {NoChampion}]
  randomizedLanes,              \* set of lanes
  rerolledLanes,                \* lane -> [original, rerolled], partial
  pendingSelections,            \* lane -> champion or NoChampion, partial
  hasUsedReroll,
  currentTeamId,                \* 0 is null
  incompleteTeams,              \* sequence of snapshots
  storedIncompleteTeams,        \* localStorage 'incomplete-teams'
  savedTeams,                   \* sequence of saved teams
  playedChampions,
  availableChampions,           \* [Lanes -> set of champions]
  displayingSavedTeam,
  \* ---- a second tab of the same browser, sitting on an empty draft
  otherIncompleteTeams,         \* its incompleteTeams
  otherAvailableChampions,      \* its availableChampions
  \* ---- another client, on another device
  otherSavedTeams,              \* its savedTeams
  \* ---- a lockInTeam call suspended at await Promise.all(removePromises)
  otherCurrentTeamId,           \* the second tab's currentTeamId
  pendingLoad,                  \* [active, localTeams]: a loadSavedTeams
                                \* call waiting for its fetch
  pendingLockIn,                \* [active, champions, availableChampions,
                                \*  team, timestamp]
  \* ---- environment
  now,                          \* the clock (Date.now)
  timers,                       \* pending setTimeout(saveIncompleteTeam)
  \* ---- history
  lastOp,                       \* the last operation and what it did
  lockedChampions,              \* champions of locked or admin-created
                                \* teams, until a reset or a deletion of
                                \* the team releases them
  rerolledSessions              \* ids of the sessions in which
                                \* rerandomizeLane has been accepted, until
                                \* the session is locked in or discarded

serverVars == <<availableChampionsCollection, teamsCollection>>
draftVars == <<selectedChampions, randomizedLanes, rerolledLanes,
               pendingSelections, hasUsedReroll, currentTeamId,
               displayingSavedTeam>>
storeVars == <<draftVars, incompleteTeams, storedIncompleteTeams,
               savedTeams, playedChampions, availableChampions>>
flightVars == <<pendingLoad, otherCurrentTeamId>>
otherVars == <<otherIncompleteTeams, otherAvailableChampions,
               otherSavedTeams, pendingLockIn, championRolesCollection,
               flightVars>>
vars == <<serverVars, storeVars, now, timers, lastOp, lockedChampions,
          rerolledSessions, otherVars>>

NoId == 0

EmptyTeam == [l \in Lanes |-> NoChampion]

\* the non-null champions of a team (Object.values(team) filtered)
TeamChampions(team) == {team[l] : l \in Lanes} \ {NoChampion}

(***************************************************************************)
(* Backend: available-champions collection.  The unique index on champion   *)
(* (server-mongodb.cjs:97) rejects an insert for a champion that already    *)
(* has a document.                                                          *)
(***************************************************************************)
Doc(c, lane, avail) == [champion |-> c, lane |-> lane, isAvailable |-> avail]

\* insertOne under the unique index: result [coll, ok]
InsertDoc(coll, d) ==
  IF \E e \in coll : e.champion = d.champion
    THEN [coll |-> coll, ok |-> FALSE]
    ELSE [coll |-> coll \cup {d}, ok |-> TRUE]

\* GET /api/available-champions/:lane
GetAvailable(coll, lane) ==
  {c \in ChampionPool(lane) :
     LET global == {d \in coll : d.champion = c /\ d.lane = NoLane}
         perLane == {d \in coll : d.champion = c /\ d.lane = lane}
     IN  IF global # {} THEN \A d \in global : d.isAvailable
         ELSE IF perLane # {} THEN \A d \in perLane : d.isAvailable
         ELSE TRUE}

\* GET /api/available-champions/batch
GetAvailableBatch(coll) ==
  [lane \in Lanes |->
     {c \in ChampionPool(lane) :
        LET globalMap == {d \in coll : d.lane = NoLane}
            perLaneMap == {d \in coll : d.lane # NoLane}
        IN  IF \E d \in globalMap : d.champion = c
              THEN \A d \in globalMap : d.champion = c => d.isAvailable
            ELSE IF \E d \in perLaneMap : d.champion = c /\ d.lane = lane
              THEN \A d \in perLaneMap :
                     (d.champion = c /\ d.lane = lane) => d.isAvailable
            ELSE TRUE}]

\* POST /api/available-champions/:lane/remove
\* updateOne({lane, champion}, {$set: {isAvailable: false}}, {upsert: false})
RemoveEndpoint(coll, lane, c) ==
  LET matched == {d \in coll : d.lane = lane /\ d.champion = c}
  IN  IF matched = {}
        THEN [coll |-> coll, ok |-> FALSE]
        ELSE [coll |-> (coll \ matched) \cup {Doc(c, lane, FALSE)},
              ok |-> TRUE]

\* POST /api/available-champions/:lane/restore
\* updateOne({lane, champion}, {$set: {isAvailable: true}}, {upsert: true})
RestoreEndpoint(coll, lane, c) ==
  LET matched == {d \in coll : d.lane = lane /\ d.champion = c}
  IN  IF matched = {}
        THEN InsertDoc(coll, Doc(c, lane, TRUE))
        ELSE [coll |-> (coll \ matched) \cup {Doc(c, lane, TRUE)},
              ok |-> TRUE]

\* updateOne({champion}, {$set: {champion, isAvailable}, $unset: {lane}},
\*           {upsert: true})
SetGlobal(coll, c, avail) ==
  {d \in coll : d.champion # c} \cup {Doc(c, NoLane, avail)}

\* faulty variant of set-unavailable: the document keeps its lane field
SetUnavailableKeepingLane(coll, c) ==
  IF \E d \in coll : d.champion = c
    THEN {d \in coll : d.champion # c}
           \cup {Doc(c, d.lane, FALSE) : d \in {e \in coll : e.champion = c}}
    ELSE coll \cup {Doc(c, NoLane, FALSE)}

\* POST /api/available-champions/champion/:champion/set-unavailable
SetUnavailableEndpoint(coll, c) == SetGlobal(coll, c, FALSE)

RECURSIVE ResetAll(_, _)
ResetAll(coll, cs) ==
  IF cs = {} THEN coll
  ELSE LET c == CHOOSE x \in cs : TRUE
       IN  ResetAll(SetGlobal(coll, c, TRUE), cs \ {c})

\* POST /api/available-champions/:lane/reset
ResetEndpoint(coll, lane) ==
  IF ChampionPool(lane) = {}
    THEN [coll |-> coll, ok |-> FALSE]
    ELSE [coll |-> ResetAll(coll, ChampionPool(lane)), ok |-> TRUE]

\* POST /api/available-champions/initialize: an ordered bulkWrite of
\* upserts filtered on {lane, champion}; it stops at the first error.
RECURSIVE InitializeFrom(_, _)
InitializeFrom(coll, i) ==
  IF i > Len(InitializeOrder) THEN [coll |-> coll, ok |-> TRUE]
  ELSE LET lane == InitializeOrder[i][1]
           c == InitializeOrder[i][2]
           r == RestoreEndpoint(coll, lane, c)
       IN  IF r.ok THEN InitializeFrom(r.coll, i + 1)
           ELSE [coll |-> coll, ok |-> FALSE]

InitializeEndpoint(coll) == InitializeFrom(coll, 1)

(***************************************************************************)
(* Backend: champion-roles collection, and the two reads of availability    *)
(* over any content of it.  RoleLanes above is the content the store's      *)
(* championPools were loaded from.                                          *)
(***************************************************************************)
\* a champion whose name is the empty string (a key of the roles object
\* that POST /api/champion-roles accepts)
Unnamed == ""

DefaultRoles == {[champion |-> c, lanes |-> RoleLanes(c)] : c \in Champions}

\* POST /api/champion-roles with one entry: an upsert on {champion}
SaveRolesEndpoint(roles, c, lanes) ==
  {r \in roles : r.champion # c} \cup {[champion |-> c, lanes |-> lanes]}

\* is c listed, given the documents of the collection that the read
\* consults for the lane
ListedFor(coll, c, lane) ==
  LET global == {d \in coll : d.champion = c /\ d.lane = NoLane}
      perLane == {d \in coll : d.champion = c /\ d.lane = lane}
  IN  IF global # {} THEN \A d \in global : d.isAvailable
      ELSE IF perLane # {} THEN \A d \in perLane : d.isAvailable
      ELSE TRUE

\* GET /api/available-champions/:lane over the roles documents: every
\* document whose lanes include the lane contributes its champion
GetAvailableIn(roles, coll, lane) ==
  {c \in {r.champion : r \in {x \in roles : lane \in x.lanes}} :
     ListedFor(coll, c, lane)}

\* GET /api/available-champions/batch over the roles documents: only
\* documents with a truthy champion enter championLanesMap
GetAvailableBatchIn(roles, coll) ==
  [lane \in Lanes |->
     {c \in {r.champion :
               r \in {x \in roles : x.champion # Unnamed /\ lane \in x.lanes}} :
        ListedFor(coll, c, lane)}]

(***************************************************************************)
(* Backend: teams collection.                                               *)
(***************************************************************************)
\* a saved team; hasId says whether the document carries MongoDB's _id
SavedTeam(ts, team, admin, hasId) ==
  [timestamp |-> ts, team |-> team, isAdminCreated |-> admin, hasId |-> hasId]

\* insert x into a sequence sorted by timestamp descending, after its equals
RECURSIVE InsertDesc(_, _)
InsertDesc(sorted, x) ==
  IF sorted = <<>> THEN <<x>>
  ELSE IF Head(sorted).timestamp >= x.timestamp
         THEN <<Head(sorted)>> \o InsertDesc(Tail(sorted), x)
         ELSE <<x>> \o sorted

\* sort by timestamp, newest first (a stable sort)
RECURSIVE SortDesc(_)
SortDesc(s) ==
  IF s = <<>> THEN <<>>
  ELSE LET n == Len(s)
       IN  InsertDesc(SortDesc(SubSeq(s, 1, n - 1)), s[n])

\* GET /api/teams
GetTeamsEndpoint(coll) == SortDesc(coll)

\* faulty variant of POST /api/teams: the body is not validated
SaveTeamEndpointUnchecked(coll, body) ==
  [coll |-> Append(coll, SavedTeam(body.timestamp, body.team,
                                   body.isAdminCreated, TRUE)),
   ok |-> TRUE]

\* POST /api/teams: a request body is [hasTeam, timestamp, team, isAdminCreated];
\* timestamp 0 stands for a missing timestamp.
SaveTeamEndpoint(coll, body) ==
  IF ~body.hasTeam \/ body.timestamp = 0
    THEN [coll |-> coll, ok |-> FALSE]
    ELSE [coll |-> Append(coll, SavedTeam(body.timestamp, body.team,
                                          body.isAdminCreated, TRUE)),
          ok |-> TRUE]

\* remove the first element of s with the given timestamp
RECURSIVE RemoveFirst(_, _)
RemoveFirst(s, ts) ==
  IF s = <<>> THEN <<>>
  ELSE IF Head(s).timestamp = ts THEN Tail(s)
  ELSE <<Head(s)>> \o RemoveFirst(Tail(s), ts)

\* DELETE /api/teams/:timestamp
DeleteTeamEndpoint(coll, ts) ==
  IF \E i \in 1..Len(coll) : coll[i].timestamp = ts
    THEN [coll |-> RemoveFirst(coll, ts), ok |-> TRUE]
    ELSE [coll |-> coll, ok |-> FALSE]

\* DELETE /api/teams
DeleteAllTeamsEndpoint(coll) == <<>>

(***************************************************************************)
(* Client store: computed values.                                           *)
(***************************************************************************)
\* an object with no keys
EmptyMap == [x \in {} |-> NoChampion]

SetKey(f, k, v) == [x \in (DOMAIN f) \cup {k} |-> IF x = k THEN v ELSE f[x]]

\* faulty variant of DelKey: the key is not deleted
DelKeyKept(f, k) == f

DelKey(f, k) == [x \in (DOMAIN f) \ {k} |-> f[x]]

SeqToSet(s) == {s[i] : i \in 1..Len(s)}

RECURSIVE FilterTeams(_, _)
\* savedTeams.filter(team => team.timestamp !== timestamp)
FilterTeams(s, ts) ==
  IF s = <<>> THEN <<>>
  ELSE IF Head(s).timestamp = ts THEN FilterTeams(Tail(s), ts)
  ELSE <<Head(s)>> \o FilterTeams(Tail(s), ts)

RECURSIVE FilterSnapshots(_, _)
\* incompleteTeams.filter(t => t.id !== id)
FilterSnapshots(s, id) ==
  IF s = <<>> THEN <<>>
  ELSE IF Head(s).id = id THEN FilterSnapshots(Tail(s), id)
  ELSE <<Head(s)>> \o FilterSnapshots(Tail(s), id)

\* getChampionLanes: the lanes whose pool includes the champion
GetChampionLanes(c) == {l \in Lanes : c \in ChampionPool(l)}

\* faulty variant of IncompleteTeamChampions: the current session's own
\* snapshot is subtracted as well
IncompleteTeamChampionsAll(its, cur) ==
  UNION {TeamChampions(its[i].team) : i \in 1..Len(its)}

\* champions selected in incomplete teams other than the current one
IncompleteTeamChampions(its, cur) ==
  UNION {TeamChampions(its[i].team) : i \in {j \in 1..Len(its) : its[j].id # cur}}

\* faulty variant of getAvailableChampions: the snapshots are not consulted
AvailableForUnfiltered(avail, its, cur, lane) == avail[lane]

\* getAvailableChampions(lane), on given state
AvailableFor(avail, its, cur, lane) ==
  avail[lane] \ IncompleteTeamChampions(its, cur)

GetAvailableChampions(lane) ==
  AvailableFor(availableChampions, incompleteTeams, currentTeamId, lane)

\* faulty variant of canLockIn: unresolved offers do not block
CanLockInAlways(pend) == TRUE

\* faulty variant of canLockIn: a resolved offer still blocks
CanLockInNoOffers(pend) == DOMAIN pend = {}

\* canLockIn, on a given pendingSelections
CanLockInWith(pend) ==
  IF DOMAIN pend = {} THEN TRUE
  ELSE \A lane \in DOMAIN pend : pend[lane] # NoChampion

CanLockIn == CanLockInWith(pendingSelections)

\* faulty variant of finalChampions: the pending selections are not applied
FinalChampionsSelected(sel, pend) == sel

\* lockInTeam's finalChampions: the selections with the pending selections
\* that have been made applied over them
FinalChampions(sel, pend) ==
  [l \in Lanes |->
     IF l \in DOMAIN pend /\ pend[l] # NoChampion THEN pend[l] ELSE sel[l]]

\* faulty variant of the snapshot: the reroll offers are left out
SnapshotWithoutOffers(id, sel, rer, pend, used) ==
  [id |-> id, team |-> sel, rerolledLanes |-> EmptyMap,
   pendingSelections |-> pend, hasUsedReroll |-> used]

Snapshot(id, sel, rer, pend, used) ==
  [id |-> id, team |-> sel, rerolledLanes |-> rer,
   pendingSelections |-> pend, hasUsedReroll |-> used]

\* saveIncompleteTeam on the given state: the new incompleteTeams,
\* currentTeamId and clock.  The snapshot's own timestamp is never read and
\* is left out.
SaveIncompleteTeam(its, cur, sel, rer, pend, used, clock) ==
  LET id == IF cur # NoId THEN cur ELSE clock + 1
      team == Snapshot(id, sel, rer, pend, used)
      found == {i \in 1..Len(its) : its[i].id = id}
      existingIndex == CHOOSE i \in found : \A j \in found : i <= j
  IN  [incompleteTeams |->
         IF found # {} THEN [its EXCEPT ![existingIndex] = team]
         ELSE Append(its, team),
       currentTeamId |-> id,
       now |-> IF cur # NoId THEN clock ELSE clock + 1]

\* the clock can still be read by saveIncompleteTeam
CanSave(cur) == cur # NoId \/ now < MaxTime

(***************************************************************************)
(* History.                                                                 *)
(***************************************************************************)
Op(op, lane, champion, accepted) ==
  [op |-> op, lane |-> lane, champion |-> champion, accepted |-> accepted,
   failed |-> {}, roles |-> {},
   delivered |-> TRUE, hasTeam |-> TRUE, team |-> EmptyTeam, timestamp |-> 0]

TeamOp(op, accepted, delivered, team, ts) ==
  [op |-> op, lane |-> NoLane, champion |-> NoChampion,
   accepted |-> accepted, delivered |-> delivered, hasTeam |-> TRUE,
   team |-> team, timestamp |-> ts, failed |-> {}, roles |-> {}]

\* a reset of the given roles; delivered says whether every request reached
\* the backend
ResetOp(op, roles, delivered) ==
  [op |-> op, lane |-> NoLane, champion |-> NoChampion, accepted |-> TRUE,
   delivered |-> delivered, hasTeam |-> TRUE, team |-> EmptyTeam,
   timestamp |-> 0, failed |-> {}, roles |-> roles]

\* a request sent straight to POST /api/teams, with its body
SaveOp(body, accepted) ==
  [op |-> "saveTeam", lane |-> NoLane, champion |-> NoChampion,
   accepted |-> accepted, delivered |-> TRUE, hasTeam |-> body.hasTeam,
   team |-> body.team, timestamp |-> body.timestamp, failed |-> {},
   roles |-> {}]

\* a load of availability lists: accepted says whether the first request
\* (the lane's, or the batch) succeeded, failed holds the lanes whose own
\* request failed
LoadOp(op, lane, accepted, failed) ==
  [op |-> op, lane |-> lane, champion |-> NoChampion, accepted |-> accepted,
   delivered |-> TRUE, hasTeam |-> FALSE, team |-> EmptyTeam, timestamp |-> 0,
   failed |-> failed, roles |-> {}]

(***************************************************************************)
(* Initial state: a fresh database and a freshly constructed store, whose   *)
(* availableChampions start as the champion pools.                          *)
(***************************************************************************)
\* no lockInTeam call is suspended
NoLoad == [active |-> FALSE, localTeams |-> <<>>]

NoLockIn ==
  [active |-> FALSE, champions |-> {},
   availableChampions |-> [l \in Lanes |-> {}],
   team |-> EmptyTeam, timestamp |-> 0]

Init ==
  \* a database that no client has initialized yet, or one that has been
  /\ availableChampionsCollection \in {{}, InitializeEndpoint({}).coll}
  /\ teamsCollection = <<>>
  /\ selectedChampions = EmptyTeam
  /\ randomizedLanes = {}
  /\ rerolledLanes = EmptyMap
  /\ pendingSelections = EmptyMap
  /\ hasUsedReroll = FALSE
  /\ currentTeamId = NoId
  /\ incompleteTeams = <<>>
  /\ savedTeams = <<>>
  /\ playedChampions = {}
  /\ availableChampions = [l \in Lanes |-> ChampionPool(l)]
  /\ displayingSavedTeam = FALSE
  /\ now = 0
  /\ timers = 0
  /\ lastOp = Op("init", NoLane, NoChampion, TRUE)
  /\ lockedChampions = {}
  /\ rerolledSessions = {}
  /\ otherIncompleteTeams = <<>>
  /\ otherAvailableChampions = [l \in Lanes |-> ChampionPool(l)]
  /\ otherSavedTeams = <<>>
  /\ pendingLockIn = NoLockIn
  /\ championRolesCollection = DefaultRoles
  /\ pendingLoad = NoLoad
  /\ storedIncompleteTeams = <<>>
  /\ otherCurrentTeamId = NoId

(***************************************************************************)
(* Draft session actions.                                                   *)
(***************************************************************************)
\* resetForNewGame
ResetForNewGame ==
  /\ selectedChampions' = EmptyTeam
  /\ randomizedLanes' = {}
  /\ displayingSavedTeam' = FALSE
  /\ rerolledLanes' = EmptyMap
  /\ pendingSelections' = EmptyMap
  /\ hasUsedReroll' = FALSE
  /\ currentTeamId' = NoId

\* faulty variant of randomizeChampion: the pick is removed from the
\* backend at once
RandomizeChampionRemoving(lane) ==
  LET available == GetAvailableChampions(lane)
  IN  /\ available # {}
      /\ timers < MaxTimers
      /\ CanSave(currentTeamId)
      /\ \E champion \in available :
           /\ selectedChampions' =
                [selectedChampions EXCEPT ![lane] = champion]
           /\ availableChampionsCollection' =
                RemoveEndpoint(availableChampionsCollection, lane,
                               champion).coll
           /\ lastOp' = Op("randomizeChampion", lane, champion, TRUE)
      /\ randomizedLanes' = randomizedLanes \cup {lane}
      /\ currentTeamId' =
           IF currentTeamId # NoId THEN currentTeamId ELSE now + 1
      /\ now' = IF currentTeamId # NoId THEN now ELSE now + 1
      /\ timers' = timers + 1
      /\ UNCHANGED <<teamsCollection, rerolledLanes, pendingSelections,
                     hasUsedReroll, displayingSavedTeam,
                     incompleteTeams, storedIncompleteTeams, savedTeams, playedChampions,
                     availableChampions, lockedChampions,
                     rerolledSessions, otherVars>>

RandomizeChampion(lane) ==
  LET available == GetAvailableChampions(lane)
  IN  IF available = {}
        THEN /\ lastOp' = Op("randomizeChampion", NoLane, NoChampion, FALSE)
             /\ UNCHANGED <<serverVars, storeVars, now, timers,
                            lockedChampions,
                 rerolledSessions, otherVars>>
        ELSE /\ timers < MaxTimers
             /\ CanSave(currentTeamId)
             /\ \E champion \in available :
                  /\ selectedChampions' =
                       [selectedChampions EXCEPT ![lane] = champion]
                  /\ lastOp' = Op("randomizeChampion", lane, champion, TRUE)
             /\ randomizedLanes' = randomizedLanes \cup {lane}
             /\ currentTeamId' =
                  IF currentTeamId # NoId THEN currentTeamId ELSE now + 1
             /\ now' = IF currentTeamId # NoId THEN now ELSE now + 1
             /\ timers' = timers + 1
             /\ UNCHANGED <<serverVars, rerolledLanes, pendingSelections,
                            hasUsedReroll, displayingSavedTeam,
                            incompleteTeams, storedIncompleteTeams, savedTeams, playedChampions,
                            availableChampions, lockedChampions,
                 rerolledSessions, otherVars>>

\* the callback of randomizeChampion's setTimeout
TimerSave ==
  /\ timers > 0
  /\ CanSave(currentTeamId)
  /\ LET r == SaveIncompleteTeam(incompleteTeams, currentTeamId,
                                 selectedChampions, rerolledLanes,
                                 pendingSelections, hasUsedReroll, now)
     IN  /\ incompleteTeams' = r.incompleteTeams
         /\ storedIncompleteTeams' = r.incompleteTeams
         /\ currentTeamId' = r.currentTeamId
         /\ now' = r.now
  /\ timers' = timers - 1
  /\ lastOp' = Op("saveIncompleteTeam", NoLane, NoChampion, TRUE)
  /\ UNCHANGED <<serverVars, selectedChampions, randomizedLanes,
                 rerolledLanes, pendingSelections, hasUsedReroll,
                 displayingSavedTeam, savedTeams, playedChampions,
                 availableChampions, lockedChampions,
                 rerolledSessions, otherVars>>

\* faulty variant of rerandomizeLane's guards: hasUsedReroll is not consulted
RerollAcceptedAgain(lane) ==
  /\ GetAvailableChampions(lane) # {}
  /\ selectedChampions[lane] # NoChampion
  /\ GetAvailableChampions(lane) \ {selectedChampions[lane]} # {}

\* faulty variant of rerandomizeLane's guards: a lane without a selection
\* passes
RerollAcceptedUnselected(lane) ==
  /\ ~hasUsedReroll
  /\ GetAvailableChampions(lane) # {}

\* rerandomizeLane passes its guards
RerollAccepted(lane) ==
  /\ ~hasUsedReroll
  /\ GetAvailableChampions(lane) # {}
  /\ selectedChampions[lane] # NoChampion
  /\ GetAvailableChampions(lane) \ {selectedChampions[lane]} # {}

RerandomizeLane(lane) ==
  IF ~RerollAccepted(lane)
    THEN /\ lastOp' = Op("rerandomizeLane", NoLane, NoChampion, FALSE)
         /\ UNCHANGED <<serverVars, storeVars, now, timers, lockedChampions,
                 rerolledSessions, otherVars>>
    ELSE /\ CanSave(currentTeamId)
         /\ \E rerolledChampion \in
                GetAvailableChampions(lane) \ {selectedChampions[lane]} :
              LET originalChampion == selectedChampions[lane]
                  newRerolledLanes ==
                    SetKey(rerolledLanes, lane,
                           [original |-> originalChampion,
                            rerolled |-> rerolledChampion])
                  newPendingSelections ==
                    SetKey(pendingSelections, lane, NoChampion)
                  r == SaveIncompleteTeam(incompleteTeams, currentTeamId,
                                          selectedChampions, newRerolledLanes,
                                          newPendingSelections, TRUE, now)
              IN  /\ rerolledLanes' = newRerolledLanes
                  /\ pendingSelections' = newPendingSelections
                  /\ hasUsedReroll' = TRUE
                  /\ incompleteTeams' = r.incompleteTeams
                  /\ storedIncompleteTeams' = r.incompleteTeams
                  /\ currentTeamId' = r.currentTeamId
                  /\ now' = r.now
                  /\ rerolledSessions' =
                       rerolledSessions \cup {r.currentTeamId}
                  /\ UNCHANGED otherVars
                  /\ lastOp' =
                       Op("rerandomizeLane", lane, rerolledChampion, TRUE)
         /\ UNCHANGED <<serverVars, selectedChampions, randomizedLanes,
                        displayingSavedTeam, savedTeams, playedChampions,
                        availableChampions, timers, lockedChampions>>

\* the calls the lane card offers: the original or the rerolled champion of
\* a lane whose offer is unresolved (Lane.tsx: needsSelection)
SelectOffers ==
  {<<lane, c>> \in Lanes \X Champions :
     /\ lane \in DOMAIN rerolledLanes
     /\ lane \in DOMAIN pendingSelections
     /\ pendingSelections[lane] = NoChampion
     /\ c \in {rerolledLanes[lane].original, rerolledLanes[lane].rerolled}}

SelectRerollChampion(lane, champion) ==
  /\ CanSave(currentTeamId)
  /\ LET newPendingSelections == SetKey(pendingSelections, lane, champion)
         newSelectedChampions ==
           [selectedChampions EXCEPT ![lane] = champion]
         newRerolledLanes == DelKey(rerolledLanes, lane)
         r == SaveIncompleteTeam(incompleteTeams, currentTeamId,
                                 newSelectedChampions, newRerolledLanes,
                                 newPendingSelections, hasUsedReroll, now)
     IN  /\ pendingSelections' = newPendingSelections
         /\ selectedChampions' = newSelectedChampions
         /\ rerolledLanes' = newRerolledLanes
         /\ incompleteTeams' = r.incompleteTeams
         /\ storedIncompleteTeams' = r.incompleteTeams
         /\ currentTeamId' = r.currentTeamId
         /\ now' = r.now
  /\ lastOp' = Op("selectRerollChampion", lane, champion, TRUE)
  /\ UNCHANGED <<serverVars, randomizedLanes, hasUsedReroll,
                 displayingSavedTeam, savedTeams, playedChampions,
                 availableChampions, timers, lockedChampions,
                 rerolledSessions, otherVars>>

SaveAndStartNewTeam ==
  /\ randomizedLanes # {} => CanSave(currentTeamId)
  /\ LET r == SaveIncompleteTeam(incompleteTeams, currentTeamId,
                                 selectedChampions, rerolledLanes,
                                 pendingSelections, hasUsedReroll, now)
     IN  IF randomizedLanes # {}
           THEN /\ incompleteTeams' = r.incompleteTeams
                /\ storedIncompleteTeams' = r.incompleteTeams
                /\ now' = r.now
           ELSE UNCHANGED <<incompleteTeams, storedIncompleteTeams, now>>
  /\ ResetForNewGame
  /\ lastOp' = Op("saveAndStartNewTeam", NoLane, NoChampion, TRUE)
  /\ UNCHANGED <<serverVars, savedTeams, playedChampions,
                 availableChampions, timers, lockedChampions,
                 rerolledSessions, otherVars>>

LoadIncompleteTeam(id) ==
  /\ \E i \in 1..Len(incompleteTeams) :
       /\ incompleteTeams[i].id = id
       /\ \A j \in 1..(i - 1) : incompleteTeams[j].id # id
       /\ LET team == incompleteTeams[i]
          IN  /\ selectedChampions' = team.team
              /\ rerolledLanes' = team.rerolledLanes
              /\ pendingSelections' = team.pendingSelections
              /\ hasUsedReroll' = team.hasUsedReroll
              /\ currentTeamId' = team.id
              /\ displayingSavedTeam' = FALSE
              /\ randomizedLanes' =
                   {l \in Lanes : team.team[l] # NoChampion}
  /\ lastOp' = Op("loadIncompleteTeam", NoLane, NoChampion, TRUE)
  /\ UNCHANGED <<serverVars, incompleteTeams, storedIncompleteTeams, savedTeams, playedChampions,
                 availableChampions, now, timers, lockedChampions,
                 rerolledSessions, otherVars>>

DeleteIncompleteTeam(id) ==
  /\ incompleteTeams' = FilterSnapshots(incompleteTeams, id)
  /\ storedIncompleteTeams' = FilterSnapshots(incompleteTeams, id)
  /\ currentTeamId' = IF currentTeamId = id THEN NoId ELSE currentTeamId
  /\ lastOp' = Op("deleteIncompleteTeam", NoLane, NoChampion, TRUE)
  /\ rerolledSessions' = rerolledSessions \ {id}
  /\ UNCHANGED otherVars
  /\ UNCHANGED <<serverVars, selectedChampions, randomizedLanes,
                 rerolledLanes, pendingSelections, hasUsedReroll,
                 displayingSavedTeam, savedTeams, playedChampions,
                 availableChampions, now, timers, lockedChampions>>

DisplayTeam(team) ==
  /\ selectedChampions' = team
  /\ displayingSavedTeam' = TRUE
  /\ lastOp' = Op("displayTeam", NoLane, NoChampion, TRUE)
  /\ UNCHANGED <<serverVars, randomizedLanes, rerolledLanes,
                 pendingSelections, hasUsedReroll, currentTeamId,
                 incompleteTeams, storedIncompleteTeams, savedTeams, playedChampions,
                 availableChampions, now, timers, lockedChampions,
                 rerolledSessions, otherVars>>

ReturnToRandomize ==
  /\ ResetForNewGame
  /\ lastOp' = Op("returnToRandomize", NoLane, NoChampion, TRUE)
  /\ UNCHANGED <<serverVars, incompleteTeams, storedIncompleteTeams, savedTeams, playedChampions,
                 availableChampions, now, timers, lockedChampions,
                 rerolledSessions, otherVars>>

(***************************************************************************)
(* Reconciliation: helpers.                                                 *)
(***************************************************************************)
\* the requests of a fan-out over getChampionLanes: <<lane, champion>>
FanOut(champions) ==
  {<<l, c>> \in Lanes \X champions : l \in GetChampionLanes(c)}

\* the orders in which the backend can process a set of requests
Orders(calls) ==
  {o \in [1..Cardinality(calls) -> calls] :
     \A i, j \in 1..Cardinality(calls) : i # j => o[i] # o[j]}

RECURSIVE ApplyRemoves(_, _)
\* the remove requests that reached the backend (each touches only the
\* document it matches, so their order does not matter)
ApplyRemoves(coll, calls) ==
  IF calls = {} THEN coll
  ELSE LET call == CHOOSE x \in calls : TRUE
       IN  ApplyRemoves(RemoveEndpoint(coll, call[1], call[2]).coll,
                        calls \ {call})

RECURSIVE ApplyRestores(_, _)
\* the restore requests that reached the backend, in the given order
ApplyRestores(coll, order) ==
  IF order = <<>> THEN coll
  ELSE ApplyRestores(
         RestoreEndpoint(coll, Head(order)[1], Head(order)[2]).coll,
         Tail(order))

RECURSIVE ApplyResets(_, _)
\* the reset requests that reached the backend
ApplyResets(coll, lanes) ==
  IF lanes = {} THEN coll
  ELSE LET l == CHOOSE x \in lanes : TRUE
       IN  ApplyResets(ResetEndpoint(coll, l).coll, lanes \ {l})

\* what a fan-out of remove requests can leave behind: each request is
\* delivered or lost; delivered tells whether all of them arrived
RemoveOutcomes(coll, calls) ==
  {[coll |-> ApplyRemoves(coll, calls \ lost), delivered |-> lost = {}] :
     lost \in SUBSET calls}

\* the same for a fan-out of restore requests, which the backend may
\* process in any order
RestoreOutcomes(coll, calls) ==
  UNION {{[coll |-> ApplyRestores(coll, order), delivered |-> lost = {}] :
            order \in Orders(calls \ lost)} : lost \in SUBSET calls}

\* and for the reset requests of a set of lanes
ResetOutcomes(coll, lanes) ==
  {[coll |-> ApplyResets(coll, lanes \ lost), delivered |-> lost = {}] :
     lost \in SUBSET lanes}

\* lockInTeam / createAdminTeam: the local update of availableChampions
RemoveLocally(avail, champions) ==
  [l \in Lanes |->
     avail[l] \ {c \in champions : l \in GetChampionLanes(c)}]

\* faulty variant of the reload: a failed fetch empties the list of the lane
LoadLanesEmptied(avail, coll, lanes, failed) ==
  [l \in Lanes |->
     IF l \notin lanes THEN avail[l]
     ELSE IF l \in failed THEN {}
     ELSE GetAvailable(coll, l)]

\* loadAvailableChampions(lane) for each lane of a set: a failed fetch
\* falls back to the champion pool of the lane
LoadLanes(avail, coll, lanes, failed) ==
  [l \in Lanes |->
     IF l \notin lanes THEN avail[l]
     ELSE IF l \in failed THEN ChampionPool(l)
     ELSE GetAvailable(coll, l)]

\* loadAllAvailableChampions: the batch read, or after its failure the
\* per-lane reads
LoadAll(avail, coll, batchOk, failed) ==
  IF batchOk THEN GetAvailableBatch(coll)
  ELSE LoadLanes(avail, coll, Lanes, failed)

\* the lists a reload of some lanes can produce
LoadLanesOutcomes(avail, coll, lanes) ==
  {LoadLanes(avail, coll, lanes, failed) : failed \in SUBSET lanes}

LoadAllOutcomes(avail, coll) ==
  {LoadAll(avail, coll, TRUE, {})}
    \cup {LoadAll(avail, coll, FALSE, failed) : failed \in SUBSET Lanes}

\* teamMap.set(team.timestamp, team)
MapSet(m, team) ==
  LET found == {i \in 1..Len(m) : m[i].timestamp = team.timestamp}
  IN  IF found = {} THEN Append(m, team)
      ELSE [m EXCEPT ![CHOOSE i \in found : TRUE] = team]

RECURSIVE MapSetAll(_, _)
MapSetAll(m, s) ==
  IF s = <<>> THEN m ELSE MapSetAll(MapSet(m, Head(s)), Tail(s))

\* faulty variant of the merge: only the fetched teams are kept
MergeTeamsFetchedOnly(localTeams, teams) == SortDesc(teams)

\* faulty variant of the merge: the local entries are set last and win
MergeTeamsLocalLast(localTeams, teams) ==
  SortDesc(MapSetAll(MapSetAll(<<>>, teams), localTeams))

\* loadSavedTeams: the merge of the local list with the fetched one
MergeTeams(localTeams, teams) ==
  SortDesc(MapSetAll(MapSetAll(<<>>, localTeams), teams))

\* the champions of a list of saved teams
UsedChampions(teams) ==
  UNION {TeamChampions(teams[i].team) : i \in 1..Len(teams)}

SaveBody(ts, team, admin) ==
  [hasTeam |-> TRUE, timestamp |-> ts, team |-> team, isAdminCreated |-> admin]

(***************************************************************************)
(* Lock-in.                                                                 *)
(***************************************************************************)
LockInTeam ==
  IF ~CanLockIn
    THEN /\ lastOp' = TeamOp("lockInTeam", FALSE, TRUE, EmptyTeam, 0)
         /\ UNCHANGED <<serverVars, storeVars, now, timers, lockedChampions,
                 rerolledSessions, otherVars>>
    ELSE
      /\ now < MaxTime
      /\ LET finalChampions ==
               FinalChampions(selectedChampions, pendingSelections)
             ts == now + 1
             teamToSave == SavedTeam(ts, finalChampions, FALSE, FALSE)
             championsToRemove == TeamChampions(finalChampions)
             calls == FanOut(championsToRemove)
             updatedSavedTeams == Append(savedTeams, teamToSave)
         IN  \E removed \in RemoveOutcomes(availableChampionsCollection,
                                            calls),
                saveOk \in BOOLEAN, loadOk \in BOOLEAN :
               /\ saveOk => Len(teamsCollection) < MaxTeams
               /\ loadOk => saveOk
               /\ availableChampionsCollection' = removed.coll
               /\ teamsCollection' =
                    IF saveOk
                      THEN SaveTeamEndpoint(teamsCollection,
                             SaveBody(ts, finalChampions, FALSE)).coll
                      ELSE teamsCollection
               /\ savedTeams' =
                    IF loadOk
                      THEN MergeTeams(updatedSavedTeams,
                                      GetTeamsEndpoint(teamsCollection'))
                      ELSE updatedSavedTeams
               /\ incompleteTeams' =
                    IF currentTeamId # NoId
                      THEN FilterSnapshots(incompleteTeams, currentTeamId)
                      ELSE incompleteTeams
               /\ storedIncompleteTeams' =
                    IF currentTeamId # NoId
                      THEN FilterSnapshots(incompleteTeams, currentTeamId)
                      ELSE storedIncompleteTeams
               /\ ResetForNewGame
               /\ playedChampions' = playedChampions \cup championsToRemove
               /\ availableChampions' =
                    RemoveLocally(availableChampions, championsToRemove)
               /\ now' = ts
               /\ lastOp' =
                    TeamOp("lockInTeam", TRUE, removed.delivered,
                           finalChampions, ts)
               /\ lockedChampions' = lockedChampions \cup championsToRemove
               /\ rerolledSessions' = rerolledSessions \ {currentTeamId}
               /\ UNCHANGED otherVars
               /\ UNCHANGED timers

\* lockInTeam up to its await Promise.all(removePromises): the draft is
\* cleared and the team is in savedTeams, the remove requests are in flight.
\* With no champion to remove the promise resolves at once and the call runs
\* to its end as LockInTeam does.
LockInBegin ==
  LET finalChampions == FinalChampions(selectedChampions, pendingSelections)
      ts == now + 1
      teamToSave == SavedTeam(ts, finalChampions, FALSE, FALSE)
      championsToRemove == TeamChampions(finalChampions)
  IN  IF ~CanLockIn \/ championsToRemove = {}
        THEN LockInTeam
        ELSE /\ ~pendingLockIn.active
             /\ now < MaxTime
             /\ incompleteTeams' =
                  IF currentTeamId # NoId
                    THEN FilterSnapshots(incompleteTeams, currentTeamId)
                    ELSE incompleteTeams
             /\ storedIncompleteTeams' =
                  IF currentTeamId # NoId
                    THEN FilterSnapshots(incompleteTeams, currentTeamId)
                    ELSE storedIncompleteTeams
             /\ ResetForNewGame
             /\ playedChampions' = playedChampions \cup championsToRemove
             /\ savedTeams' = Append(savedTeams, teamToSave)
             /\ pendingLockIn' =
                  [active |-> TRUE, champions |-> championsToRemove,
                   availableChampions |-> availableChampions,
                   team |-> finalChampions, timestamp |-> ts]
             /\ now' = ts
             /\ lastOp' = TeamOp("lockInTeam", TRUE, TRUE, finalChampions, ts)
             /\ lockedChampions' = lockedChampions \cup championsToRemove
             /\ rerolledSessions' = rerolledSessions \ {currentTeamId}
             /\ UNCHANGED <<serverVars, availableChampions, timers,
                            otherIncompleteTeams, otherAvailableChampions,
                            otherSavedTeams, championRolesCollection,
                           flightVars>>

\* lockInTeam after the await: the remove requests have been answered (or
\* lost), availableChampions is set from the state read at the start of the
\* call, and the background block saves the team and reloads the ledger
LockInResume ==
  /\ pendingLockIn.active
  /\ \E removed \in RemoveOutcomes(availableChampionsCollection,
                                    FanOut(pendingLockIn.champions)),
        saveOk \in BOOLEAN, loadOk \in BOOLEAN :
       /\ saveOk => Len(teamsCollection) < MaxTeams
       /\ loadOk => saveOk
       /\ availableChampionsCollection' = removed.coll
       /\ teamsCollection' =
            IF saveOk
              THEN SaveTeamEndpoint(teamsCollection,
                     SaveBody(pendingLockIn.timestamp, pendingLockIn.team,
                              FALSE)).coll
              ELSE teamsCollection
       /\ savedTeams' =
            IF loadOk
              THEN MergeTeams(savedTeams, GetTeamsEndpoint(teamsCollection'))
              ELSE savedTeams
       /\ availableChampions' =
            RemoveLocally(pendingLockIn.availableChampions,
                          pendingLockIn.champions)
       /\ lastOp' = TeamOp("lockInTeamResume", TRUE, removed.delivered,
                           pendingLockIn.team, pendingLockIn.timestamp)
  /\ pendingLockIn' = NoLockIn
  /\ UNCHANGED <<draftVars, incompleteTeams, storedIncompleteTeams, playedChampions, now, timers,
                 lockedChampions, rerolledSessions, otherIncompleteTeams,
                 otherAvailableChampions, otherSavedTeams,
                 championRolesCollection, flightVars>>

(***************************************************************************)
(* Reconciliation actions.                                                  *)
(***************************************************************************)
\* faulty variant of loadSavedTeams: a failed fetch empties the local list
LoadSavedTeamsClearing ==
  /\ \E ok \in BOOLEAN :
       /\ savedTeams' =
            IF ok THEN MergeTeams(savedTeams,
                                  GetTeamsEndpoint(teamsCollection))
            ELSE <<>>
       /\ lastOp' = Op("loadSavedTeams", NoLane, NoChampion, ok)
  /\ UNCHANGED <<serverVars, draftVars, incompleteTeams, storedIncompleteTeams, playedChampions,
                 availableChampions, now, timers, lockedChampions,
                 rerolledSessions, otherVars>>

LoadSavedTeams ==
  /\ \E ok \in BOOLEAN :
       /\ savedTeams' =
            IF ok THEN MergeTeams(savedTeams,
                                  GetTeamsEndpoint(teamsCollection))
            ELSE savedTeams
       /\ lastOp' = Op("loadSavedTeams", NoLane, NoChampion, ok)
  /\ UNCHANGED <<serverVars, draftVars, incompleteTeams, storedIncompleteTeams, playedChampions,
                 availableChampions, now, timers, lockedChampions,
                 rerolledSessions, otherVars>>

\* loadSavedTeams up to its await: the local list is read before the fetch
LoadSavedTeamsBegin ==
  /\ ~pendingLoad.active
  /\ pendingLoad' = [active |-> TRUE, localTeams |-> savedTeams]
  /\ UNCHANGED otherCurrentTeamId
  /\ lastOp' = Op("loadSavedTeamsBegin", NoLane, NoChampion, TRUE)
  /\ UNCHANGED <<serverVars, storeVars, now, timers, lockedChampions,
                 rerolledSessions, otherIncompleteTeams,
                 otherAvailableChampions, otherSavedTeams, pendingLockIn,
                 championRolesCollection>>

\* loadSavedTeams after its await: the fetched teams are merged into the
\* list read before the fetch; a failed fetch leaves the store as it is
LoadSavedTeamsResume ==
  /\ pendingLoad.active
  /\ \E ok \in BOOLEAN :
       /\ savedTeams' =
            IF ok THEN MergeTeams(pendingLoad.localTeams,
                                  GetTeamsEndpoint(teamsCollection))
            ELSE savedTeams
       /\ lastOp' = Op("loadSavedTeamsResume", NoLane, NoChampion, ok)
  /\ pendingLoad' = NoLoad
  /\ UNCHANGED otherCurrentTeamId
  /\ UNCHANGED <<serverVars, draftVars, incompleteTeams, storedIncompleteTeams, playedChampions,
                 availableChampions, now, timers, lockedChampions,
                 rerolledSessions, otherIncompleteTeams,
                 otherAvailableChampions, otherSavedTeams, pendingLockIn,
                 championRolesCollection>>

LoadAvailableChampions(lane) ==
  /\ \E ok \in BOOLEAN :
       /\ availableChampions' =
            LoadLanes(availableChampions, availableChampionsCollection,
                      {lane}, IF ok THEN {} ELSE {lane})
       /\ lastOp' = LoadOp("loadAvailableChampions", NoLane, ok,
                           IF ok THEN {} ELSE {lane})
  /\ UNCHANGED <<serverVars, draftVars, incompleteTeams, storedIncompleteTeams, savedTeams,
                 playedChampions, now, timers, lockedChampions,
                 rerolledSessions, otherVars>>

LoadAllAvailableChampions ==
  /\ \E batchOk \in BOOLEAN :
       \E failed \in (IF batchOk THEN {{}} ELSE SUBSET Lanes) :
         /\ availableChampions' =
              LoadAll(availableChampions, availableChampionsCollection,
                      batchOk, failed)
         /\ lastOp' = LoadOp("loadAllAvailableChampions", NoLane, batchOk,
                             failed)
  /\ UNCHANGED <<serverVars, draftVars, incompleteTeams, storedIncompleteTeams, savedTeams,
                 playedChampions, now, timers, lockedChampions,
                 rerolledSessions, otherVars>>

DeleteSavedTeam(timestamp) ==
  LET found == {i \in 1..Len(savedTeams) :
                  savedTeams[i].timestamp = timestamp}
      teamToDelete ==
        IF found = {} THEN EmptyTeam
        ELSE savedTeams[CHOOSE i \in found : \A j \in found : i <= j].team
      calls == FanOut(TeamChampions(teamToDelete))
      affectedLanes == {call[1] : call \in calls}
      del == DeleteTeamEndpoint(teamsCollection, timestamp)
      updatedTeams == FilterTeams(savedTeams, timestamp)
  IN  \E netDelete \in BOOLEAN, loadOk \in BOOLEAN,
         restored \in RestoreOutcomes(availableChampionsCollection, calls) :
        /\ loadOk => (netDelete /\ del.ok)
        /\ teamsCollection' = IF netDelete THEN del.coll ELSE teamsCollection
        /\ availableChampionsCollection' = restored.coll
        /\ availableChampions' \in
             LoadLanesOutcomes(availableChampions, restored.coll,
                               affectedLanes)
        /\ savedTeams' =
             IF loadOk
               THEN MergeTeams(updatedTeams,
                               GetTeamsEndpoint(teamsCollection'))
               ELSE updatedTeams
        /\ playedChampions' =
             IF netDelete /\ del.ok THEN UsedChampions(savedTeams')
             ELSE playedChampions
        /\ lastOp' = TeamOp("deleteSavedTeam", netDelete /\ del.ok,
                            restored.delivered, teamToDelete, timestamp)
        /\ lockedChampions' = lockedChampions \ TeamChampions(teamToDelete)
        /\ UNCHANGED <<rerolledSessions, otherVars>>
        /\ UNCHANGED <<draftVars, incompleteTeams, storedIncompleteTeams, now, timers>>

\* the body of resetAllChampions; op is the store action that was called
ResetAllChampionsAs(op) ==
  /\ playedChampions' = {}
  /\ savedTeams' = <<>>
  /\ \/ \* deleteAllTeams fails: nothing else is sent
        /\ UNCHANGED <<serverVars, availableChampions>>
        /\ lastOp' = ResetOp(op, IF op = "resetAllChampions" THEN {} ELSE Lanes,
                             FALSE)
     \/ \E reset \in ResetOutcomes(availableChampionsCollection, Lanes) :
          /\ teamsCollection' = DeleteAllTeamsEndpoint(teamsCollection)
          /\ availableChampionsCollection' = reset.coll
          /\ IF reset.delivered
               THEN availableChampions' \in
                      LoadAllOutcomes(availableChampions, reset.coll)
               ELSE UNCHANGED availableChampions
          /\ lastOp' = ResetOp(op,
                               IF op = "resetAllChampions" THEN {} ELSE Lanes,
                               reset.delivered)
  /\ lockedChampions' = {}
  /\ UNCHANGED <<rerolledSessions, otherVars>>
  /\ UNCHANGED <<draftVars, incompleteTeams, storedIncompleteTeams, now, timers>>

ResetAllChampions == ResetAllChampionsAs("resetAllChampions")

\* resetChampionsByRoles for a proper subset of the lanes
ResetSomeRoles(roles) ==
  /\ \E reset \in ResetOutcomes(availableChampionsCollection, roles) :
       /\ availableChampionsCollection' = reset.coll
       /\ IF reset.delivered
            THEN availableChampions' \in
                   LoadLanesOutcomes(availableChampions, reset.coll, roles)
            ELSE UNCHANGED availableChampions
       /\ lastOp' = ResetOp("resetChampionsByRoles", roles, reset.delivered)
  /\ lockedChampions' =
       lockedChampions \ UNION {ChampionPool(l) : l \in roles}
  /\ UNCHANGED <<rerolledSessions, otherVars>>
  /\ UNCHANGED <<teamsCollection, draftVars, incompleteTeams, storedIncompleteTeams, savedTeams,
                 playedChampions, now, timers>>

\* resetChampionsByRoles: with all the roles it is resetAllChampions
ResetChampionsByRoles(roles) ==
  IF Cardinality(roles) = Cardinality(Lanes)
    THEN ResetAllChampionsAs("resetChampionsByRoles")
    ELSE ResetSomeRoles(roles)

\* the teams the admin form can submit: per lane a champion of the pool or
\* none, and at least one champion
AdminTeams ==
  {t \in [Lanes -> Champions \cup {NoChampion}] :
     /\ \A l \in Lanes : t[l] # NoChampion => t[l] \in ChampionPool(l)
     /\ \E l \in Lanes : t[l] # NoChampion}

CreateAdminTeam(team) ==
  /\ now < MaxTime
  /\ Len(savedTeams) < MaxTeams
  /\ LET ts == now + 1
         adminTeam == SavedTeam(ts, team, TRUE, FALSE)
         championsToRemove == TeamChampions(team)
         calls == FanOut(championsToRemove)
     IN  \E removed \in RemoveOutcomes(availableChampionsCollection, calls),
            saveOk \in BOOLEAN, loadOk \in BOOLEAN :
           /\ saveOk => Len(teamsCollection) < MaxTeams
           /\ loadOk => saveOk
           /\ availableChampionsCollection' = removed.coll
           /\ availableChampions' =
                RemoveLocally(availableChampions, championsToRemove)
           /\ teamsCollection' =
                IF saveOk
                  THEN SaveTeamEndpoint(teamsCollection,
                                        SaveBody(ts, team, TRUE)).coll
                  ELSE teamsCollection
           /\ savedTeams' =
                IF ~saveOk THEN Append(savedTeams, adminTeam)
                ELSE IF loadOk
                  THEN MergeTeams(savedTeams,
                                  GetTeamsEndpoint(teamsCollection'))
                ELSE savedTeams
           /\ playedChampions' = playedChampions \cup championsToRemove
           /\ now' = ts
           /\ lastOp' = TeamOp("createAdminTeam", TRUE, removed.delivered,
                               team, ts)
           /\ lockedChampions' = lockedChampions \cup championsToRemove
           /\ UNCHANGED <<rerolledSessions, otherVars>>
  /\ UNCHANGED <<draftVars, incompleteTeams, storedIncompleteTeams, timers>>

\* a request to the set-unavailable endpoint
SetChampionUnavailable(c) ==
  /\ availableChampionsCollection' =
       SetUnavailableEndpoint(availableChampionsCollection, c)
  /\ lastOp' = Op("setChampionUnavailable", NoLane, c, TRUE)
  /\ UNCHANGED <<teamsCollection, storeVars, now, timers, lockedChampions,
                 rerolledSessions, otherVars>>

\* a page load: the store is constructed again and rehydrated
\* (onRehydrateStorage).  savedTeams and playedChampions are persisted, the
\* incomplete teams are read back from localStorage, the rest starts over.
Rehydrate ==
  /\ ResetForNewGame
  /\ timers' = 0
  /\ \E checkOk \in BOOLEAN, initNet \in BOOLEAN :
       LET defaults == [l \in Lanes |-> ChampionPool(l)]
           needsInit ==
             IF checkOk THEN availableChampionsCollection = {} ELSE TRUE
           init == InitializeEndpoint(availableChampionsCollection)
           loads == IF needsInit THEN initNet /\ init.ok ELSE TRUE
       IN  /\ ~needsInit => initNet
           /\ availableChampionsCollection' =
                IF needsInit /\ initNet THEN init.coll
                ELSE availableChampionsCollection
           /\ IF loads
                THEN availableChampions' \in
                       LoadAllOutcomes(defaults,
                                       availableChampionsCollection')
                ELSE availableChampions' = defaults
           /\ lastOp' = Op("rehydrate", NoLane, NoChampion, TRUE)
  /\ savedTeams' \in
       {savedTeams, MergeTeams(savedTeams, GetTeamsEndpoint(teamsCollection))}
  /\ incompleteTeams' = storedIncompleteTeams
  /\ UNCHANGED <<teamsCollection, storedIncompleteTeams, playedChampions,
                 now, lockedChampions, rerolledSessions, otherVars>>

(***************************************************************************)
(* The second tab.  Its store is another instance of the same code over the *)
(* same localStorage; it reads the incomplete teams only when it loads.     *)
(***************************************************************************)
\* the page load of the second tab (onRehydrateStorage): loadIncompleteTeams
\* reads what the first tab last wrote, loadAllAvailableChampions follows
OtherTabLoad ==
  /\ otherIncompleteTeams' = storedIncompleteTeams
  /\ otherAvailableChampions' \in
       LoadAllOutcomes([l \in Lanes |-> ChampionPool(l)],
                       availableChampionsCollection)
  /\ lastOp' = Op("otherTabLoad", NoLane, NoChampion, TRUE)
  /\ UNCHANGED <<serverVars, storeVars, now, timers, lockedChampions,
                 rerolledSessions, otherSavedTeams, pendingLockIn,
                 championRolesCollection, flightVars>>

\* getAvailableChampions(lane) in the second tab, whose draft is empty
OtherGetAvailableChampions(lane) ==
  AvailableFor(otherAvailableChampions, otherIncompleteTeams, NoId, lane)

\* the second tab drafts: its randomizeChampion(lane) picks champion for a
\* new session, and the delayed saveIncompleteTeam writes the tab's own list
\* of snapshots to the shared localStorage
OtherSaveIncompleteTeam(lane, champion) ==
  /\ otherCurrentTeamId = NoId
  /\ CanSave(otherCurrentTeamId)
  /\ champion \in OtherGetAvailableChampions(lane)
  /\ LET r == SaveIncompleteTeam(otherIncompleteTeams, otherCurrentTeamId,
                                 [EmptyTeam EXCEPT ![lane] = champion],
                                 EmptyMap, EmptyMap, FALSE, now)
     IN  /\ otherIncompleteTeams' = r.incompleteTeams
         /\ storedIncompleteTeams' = r.incompleteTeams
         /\ otherCurrentTeamId' = r.currentTeamId
         /\ now' = r.now
  /\ lastOp' = Op("otherSaveIncompleteTeam", lane, champion, TRUE)
  /\ UNCHANGED <<serverVars, draftVars, incompleteTeams, savedTeams,
                 playedChampions, availableChampions, timers,
                 lockedChampions, rerolledSessions, otherAvailableChampions,
                 otherSavedTeams, pendingLockIn, championRolesCollection,
                 pendingLoad>>

\* deleteIncompleteTeam of the second tab on its own session
OtherDeleteIncompleteTeam ==
  /\ otherCurrentTeamId # NoId
  /\ otherIncompleteTeams' =
       FilterSnapshots(otherIncompleteTeams, otherCurrentTeamId)
  /\ storedIncompleteTeams' =
       FilterSnapshots(otherIncompleteTeams, otherCurrentTeamId)
  /\ otherCurrentTeamId' = NoId
  /\ lastOp' = Op("otherDeleteIncompleteTeam", NoLane, NoChampion, TRUE)
  /\ UNCHANGED <<serverVars, draftVars, incompleteTeams, savedTeams,
                 playedChampions, availableChampions, now, timers,
                 lockedChampions, rerolledSessions, otherAvailableChampions,
                 otherSavedTeams, pendingLockIn, championRolesCollection,
                 pendingLoad>>

\* loadIncompleteTeams of the first tab (IncompleteTeamsButton mounts): the
\* list in memory is replaced by the stored one
LoadIncompleteTeams ==
  /\ incompleteTeams' = storedIncompleteTeams
  /\ lastOp' = Op("loadIncompleteTeams", NoLane, NoChampion, TRUE)
  /\ UNCHANGED <<serverVars, draftVars, storedIncompleteTeams, savedTeams,
                 playedChampions, availableChampions, now, timers,
                 lockedChampions, rerolledSessions, otherVars>>

\* the periodic loadSavedTeams of another client (App's setInterval); ok
\* says whether its fetch succeeded
OtherLoadSavedTeams(ok) ==
  /\ otherSavedTeams' =
       IF ok THEN MergeTeams(otherSavedTeams,
                             GetTeamsEndpoint(teamsCollection))
       ELSE otherSavedTeams
  /\ lastOp' = Op("otherLoadSavedTeams", NoLane, NoChampion, ok)
  /\ UNCHANGED <<serverVars, storeVars, now, timers, lockedChampions,
                 rerolledSessions, otherIncompleteTeams,
                 otherAvailableChampions, pendingLockIn,
                 championRolesCollection, flightVars>>

(***************************************************************************)
(* Requests of other clients to the teams API.                              *)
(***************************************************************************)
\* the bodies a client can post: a team with a top pick, with or without
\* the team member and the timestamp member
SaveBodies ==
  {[hasTeam |-> h, timestamp |-> ts, team |-> t, isAdminCreated |-> FALSE] :
     h \in BOOLEAN, ts \in 0..MaxTime,
     t \in {x \in AdminTeams : x["mid"] = NoChampion}}

\* apiService.saveTeam: POST /api/teams.  insertOne may fail (dbOk).
SaveTeamRequest(body) ==
  /\ Len(teamsCollection) < MaxLedger
  /\ \E dbOk \in BOOLEAN :
       LET res == SaveTeamEndpoint(teamsCollection, body)
       IN  /\ teamsCollection' = IF dbOk THEN res.coll ELSE teamsCollection
           /\ lastOp' = SaveOp(body, dbOk /\ res.ok)
  /\ UNCHANGED <<availableChampionsCollection, storeVars, now, timers,
                 lockedChampions,
                 rerolledSessions, otherVars>>

\* apiService.deleteTeam: DELETE /api/teams/:timestamp
DeleteTeamRequest(timestamp) ==
  /\ LET res == DeleteTeamEndpoint(teamsCollection, timestamp)
     IN  /\ teamsCollection' = res.coll
         /\ lastOp' = TeamOp("deleteTeam", res.ok, TRUE, EmptyTeam, timestamp)
  /\ UNCHANGED <<availableChampionsCollection, storeVars, now, timers,
                 lockedChampions,
                 rerolledSessions, otherVars>>

\* apiService.deleteAllTeams: DELETE /api/teams
DeleteAllTeamsRequest ==
  /\ teamsCollection' = DeleteAllTeamsEndpoint(teamsCollection)
  /\ lastOp' = TeamOp("deleteAllTeams", TRUE, TRUE, EmptyTeam, 0)
  /\ UNCHANGED <<availableChampionsCollection, storeVars, now, timers,
                 lockedChampions,
                 rerolledSessions, otherVars>>

(***************************************************************************)
(* Requests of any client to the availability API.                          *)
(***************************************************************************)
\* apiService.removeAvailableChampion: POST /:lane/remove
RemoveAvailableRequest(lane, c) ==
  /\ LET res == RemoveEndpoint(availableChampionsCollection, lane, c)
     IN  /\ availableChampionsCollection' = res.coll
         /\ lastOp' = Op("removeAvailableChampion", lane, c, res.ok)
  /\ UNCHANGED <<teamsCollection, storeVars, now, timers, lockedChampions,
                 rerolledSessions, otherVars>>

\* apiService.restoreAvailableChampion: POST /:lane/restore
RestoreAvailableRequest(lane, c) ==
  /\ LET res == RestoreEndpoint(availableChampionsCollection, lane, c)
     IN  /\ availableChampionsCollection' = res.coll
         /\ lastOp' = Op("restoreAvailableChampion", lane, c, res.ok)
  /\ UNCHANGED <<teamsCollection, storeVars, now, timers, lockedChampions,
                 rerolledSessions, otherVars>>

\* apiService.resetAvailableChampions: POST /:lane/reset
ResetAvailableRequest(lane) ==
  /\ LET res == ResetEndpoint(availableChampionsCollection, lane)
     IN  /\ availableChampionsCollection' = res.coll
         /\ lastOp' = Op("resetAvailableChampions", lane, NoChampion, res.ok)
  /\ UNCHANGED <<teamsCollection, storeVars, now, timers, lockedChampions,
                 rerolledSessions, otherVars>>

\* POST /api/champion-roles with one entry
SaveChampionRoles(c, lanes) ==
  /\ championRolesCollection' =
       SaveRolesEndpoint(championRolesCollection, c, lanes)
  /\ lastOp' = Op("saveChampionRoles", NoLane, NoChampion, TRUE)
  /\ UNCHANGED <<serverVars, storeVars, now, timers, lockedChampions,
                 rerolledSessions, otherIncompleteTeams,
                 otherAvailableChampions, otherSavedTeams, pendingLockIn,
                 flightVars>>

(***************************************************************************)
(* Specifications.                                                          *)
(***************************************************************************)
Next ==
  \/ \E lane \in Lanes : RandomizeChampion(lane)
  \/ TimerSave
  \/ \E lane \in Lanes : RerandomizeLane(lane)
  \/ \E offer \in SelectOffers : SelectRerollChampion(offer[1], offer[2])
  \/ SaveAndStartNewTeam
  \/ \E i \in 1..Len(incompleteTeams) :
       LoadIncompleteTeam(incompleteTeams[i].id)
  \/ \E i \in 1..Len(incompleteTeams) :
       DeleteIncompleteTeam(incompleteTeams[i].id)
  \/ \E i \in 1..Len(savedTeams) : DisplayTeam(savedTeams[i].team)
  \/ ReturnToRandomize
  \/ LockInTeam
  \/ LoadSavedTeams
  \/ \E lane \in Lanes : LoadAvailableChampions(lane)
  \/ LoadAllAvailableChampions
  \/ \E i \in 1..Len(savedTeams) : DeleteSavedTeam(savedTeams[i].timestamp)
  \/ ResetAllChampions
  \/ \E roles \in (SUBSET Lanes) \ {{}} : ResetChampionsByRoles(roles)
  \/ \E team \in AdminTeams : CreateAdminTeam(team)
  \/ \E c \in Champions : SetChampionUnavailable(c)
  \/ Rehydrate
  \/ \E body \in SaveBodies : SaveTeamRequest(body)
  \/ \E ts \in 1..MaxTime : DeleteTeamRequest(ts)
  \/ DeleteAllTeamsRequest
  \/ OtherTabLoad
  \/ LoadSavedTeamsBegin
  \/ LoadSavedTeamsResume
  \/ \E lane \in Lanes, c \in Champions : OtherSaveIncompleteTeam(lane, c)
  \/ OtherDeleteIncompleteTeam
  \/ LoadIncompleteTeams

Spec == Init /\ [][Next]_vars

\* the draft session alone: picks, the reroll, snapshots, lock-in
NextDraft ==
  \/ \E lane \in Lanes : RandomizeChampion(lane)
  \/ TimerSave
  \/ \E lane \in Lanes : RerandomizeLane(lane)
  \/ \E offer \in SelectOffers : SelectRerollChampion(offer[1], offer[2])
  \/ SaveAndStartNewTeam
  \/ \E i \in 1..Len(incompleteTeams) :
       LoadIncompleteTeam(incompleteTeams[i].id)
  \/ \E i \in 1..Len(incompleteTeams) :
       DeleteIncompleteTeam(incompleteTeams[i].id)
  \/ LockInTeam

SpecDraft == Init /\ [][NextDraft]_vars

\* locking champions out: picks, lock-in, admin teams, and what brings a
\* champion back (deletion of the team, a full reset)
NextLock ==
  \/ \E lane \in Lanes : RandomizeChampion(lane)
  \/ TimerSave
  \/ \E lane \in Lanes : RerandomizeLane(lane)
  \/ \E offer \in SelectOffers : SelectRerollChampion(offer[1], offer[2])
  \/ LockInTeam
  \/ \E lane \in Lanes : LoadAvailableChampions(lane)
  \/ \E i \in 1..Len(savedTeams) : DeleteSavedTeam(savedTeams[i].timestamp)
  \/ ResetAllChampions

SpecLock == Init /\ [][NextLock]_vars

\* bringing champions back: admin teams and their deletion over every kind
\* of availability record
NextRestore ==
  \/ \E team \in AdminTeams : CreateAdminTeam(team)
  \/ \E c \in Champions : SetChampionUnavailable(c)
  \/ \E roles \in (SUBSET Lanes) \ {{}} : ResetChampionsByRoles(roles)
  \/ \E i \in 1..Len(savedTeams) : DeleteSavedTeam(savedTeams[i].timestamp)

SpecRestore == Init /\ [][NextRestore]_vars

\* the team ledger: the requests of the teams API and a client that shows
\* the ledger
NextLedger ==
  \/ \E body \in SaveBodies : SaveTeamRequest(body)
  \/ \E ts \in 1..MaxTime : DeleteTeamRequest(ts)
  \/ DeleteAllTeamsRequest
  \/ LoadSavedTeams

SpecLedger == Init /\ [][NextLedger]_vars

\* reloading the availability lists while admin teams and admin overrides
\* change the backend
NextLoad ==
  \/ \E team \in AdminTeams : CreateAdminTeam(team)
  \/ \E c \in Champions : SetChampionUnavailable(c)
  \/ \E lane \in Lanes : LoadAvailableChampions(lane)
  \/ LoadAllAvailableChampions

SpecLoad == Init /\ [][NextLoad]_vars

\* lock-in and the reloads that follow it: the reload of the ledger that the
\* application repeats every 30 seconds, and the reload of the availability
\* lists that a page load or the admin form starts
NextSync ==
  \/ \E lane \in Lanes : RandomizeChampion(lane)
  \/ TimerSave
  \/ LockInTeam
  \/ LoadSavedTeams
  \/ LoadAllAvailableChampions

SpecSync == Init /\ [][NextSync]_vars

\* the same with the scheduling of the code: the timer of randomizeChampion
\* fires, and setInterval keeps calling loadSavedTeams.  Nothing schedules a
\* reload of the availability lists.
SpecSyncFair ==
  /\ Init
  /\ [][NextSync]_vars
  /\ WF_vars(TimerSave)
  /\ WF_vars(LoadSavedTeams)

\* the store action selectRerollChampion called with any role and champion,
\* as the store's interface allows
NextSelect ==
  \/ \E lane \in Lanes : RandomizeChampion(lane)
  \/ TimerSave
  \/ \E lane \in Lanes : RerandomizeLane(lane)
  \/ \E lane \in Lanes : \E champion \in Champions :
       SelectRerollChampion(lane, champion)

SpecSelect == Init /\ [][NextSelect]_vars

\* sharing the ledger: one client drafts and locks in, another one runs its
\* periodic loadSavedTeams, and the ledger may be cleared
NextShare ==
  \/ \E lane \in Lanes : RandomizeChampion(lane)
  \/ TimerSave
  \/ LockInTeam
  \/ \E ok \in BOOLEAN : OtherLoadSavedTeams(ok)
  \/ DeleteAllTeamsRequest

\* the availability API alone: every request, in every order, on every
\* form of record
NextAvailability ==
  \/ \E lane \in Lanes : \E c \in ChampionPool(lane) :
       RemoveAvailableRequest(lane, c)
  \/ \E lane \in Lanes : \E c \in ChampionPool(lane) :
       RestoreAvailableRequest(lane, c)
  \/ \E lane \in Lanes : ResetAvailableRequest(lane)
  \/ \E c \in Champions : SetChampionUnavailable(c)

SpecAvailability == Init /\ [][NextAvailability]_vars

\* the two reads over any champion-roles configuration and any records
NextRoles ==
  \/ \E c \in Champions \cup {Unnamed} : \E lanes \in SUBSET Lanes :
       SaveChampionRoles(c, lanes)
  \/ \E lane \in Lanes : \E c \in Champions :
       RemoveAvailableRequest(lane, c)
  \/ \E lane \in Lanes : \E c \in Champions :
       RestoreAvailableRequest(lane, c)
  \/ \E c \in Champions : SetChampionUnavailable(c)

SpecRoles == Init /\ [][NextRoles]_vars

\* a lock-in whose awaits let other events of the same client in
NextOverlap ==
  \/ \E lane \in Lanes : RandomizeChampion(lane)
  \/ TimerSave
  \/ \E lane \in Lanes : RerandomizeLane(lane)
  \/ \E offer \in SelectOffers : SelectRerollChampion(offer[1], offer[2])
  \/ LockInBegin
  \/ LockInResume

SpecOverlap == Init /\ [][NextOverlap]_vars

\* a lock-in in flight while the availability lists are refreshed and an
\* admin changes the backend
NextRefresh ==
  \/ \E lane \in Lanes : RandomizeChampion(lane)
  \/ TimerSave
  \/ LockInBegin
  \/ LockInResume
  \/ LoadAllAvailableChampions
  \/ \E c \in Champions : SetChampionUnavailable(c)

SpecRefresh == Init /\ [][NextRefresh]_vars

\* the interval keeps firing and the other client's fetches keep succeeding
SpecShareFair ==
  /\ Init /\ [][NextShare]_vars
  /\ WF_vars(OtherLoadSavedTeams(TRUE))

\* two tabs over one localStorage: the first drafts, the second looks on
\* deleting saved teams while the periodic loadSavedTeams is in flight and
\* other users save teams of one champion, each under a timestamp of its own
NextDelete ==
  \/ \E body \in SaveBodies :
       /\ body.hasTeam
       /\ TeamChampions(body.team) = {"A"}
       /\ \A i \in 1..Len(teamsCollection) :
            teamsCollection[i].timestamp # body.timestamp
       /\ SaveTeamRequest(body)
  \/ LoadSavedTeamsBegin
  \/ LoadSavedTeamsResume
  \/ \E i \in 1..Len(savedTeams) : DeleteSavedTeam(savedTeams[i].timestamp)

SpecDelete == Init /\ [][NextDelete]_vars

\* one session that drafts, rerolls, looks at saved teams and locks in
NextDisplay ==
  \/ \E lane \in Lanes : RandomizeChampion(lane)
  \/ TimerSave
  \/ \E lane \in Lanes : RerandomizeLane(lane)
  \/ \E offer \in SelectOffers : SelectRerollChampion(offer[1], offer[2])
  \/ \E i \in 1..Len(savedTeams) : DisplayTeam(savedTeams[i].team)
  \/ ReturnToRandomize
  \/ LockInTeam

SpecDisplay == Init /\ [][NextDisplay]_vars

\* two tabs drafting over the same localStorage
NextStorage ==
  \/ \E lane \in Lanes : RandomizeChampion(lane)
  \/ TimerSave
  \/ \E i \in 1..Len(incompleteTeams) :
       DeleteIncompleteTeam(incompleteTeams[i].id)
  \/ LoadIncompleteTeams
  \/ OtherTabLoad
  \/ \E lane \in Lanes, c \in Champions : OtherSaveIncompleteTeam(lane, c)
  \/ OtherDeleteIncompleteTeam

SpecStorage == Init /\ [][NextStorage]_vars

NextTabs ==
  \/ \E lane \in Lanes : RandomizeChampion(lane)
  \/ TimerSave
  \/ SaveAndStartNewTeam
  \/ \E i \in 1..Len(incompleteTeams) :
       LoadIncompleteTeam(incompleteTeams[i].id)
  \/ \E i \in 1..Len(incompleteTeams) :
       DeleteIncompleteTeam(incompleteTeams[i].id)
  \/ LockInTeam
  \/ OtherTabLoad

SpecTabs == Init /\ [][NextTabs]_vars

(***************************************************************************)
(* Claims.                                                                  *)
(***************************************************************************)
\* the last step was a pick: randomizeChampion or rerandomizeLane chose a
\* champion
Picked ==
  /\ lastOp.op \in {"randomizeChampion", "rerandomizeLane"}
  /\ lastOp.accepted

\* C1: a champion of a team locked by lockInTeam or created by
\* createAdminTeam is not chosen by randomizeChampion or rerandomizeLane
\* until a reset or the deletion of that team releases it.  Stated for a
\* champion whose removal the backend has recorded and which the backend
\* nevertheless lists as available for the lane of the pick.
C1_RemovedNeverPicked ==
  Picked =>
    ~(/\ lastOp.champion \in lockedChampions
      /\ \E d \in availableChampionsCollection :
           d.champion = lastOp.champion /\ ~d.isAvailable
      /\ lastOp.champion \in
           GetAvailable(availableChampionsCollection, lastOp.lane))

\* C2: for every role, getAvailableChampions is the loaded availability
\* list of the role without the champions selected in a snapshot of another
\* session; the snapshot of the current session is not subtracted.
C2_AvailableMinusOtherSnapshots ==
  \A r \in Lanes :
    GetAvailableChampions(r) =
      {c \in availableChampions[r] :
         \A i \in 1..Len(incompleteTeams) :
           incompleteTeams[i].id # currentTeamId =>
             \A l \in Lanes : incompleteTeams[i].team[l] # c}

\* another session's snapshot keeps a listed champion out of the candidates
\* while the current session's own saved pick stays a candidate
C2_Witness ==
  /\ currentTeamId # NoId
  /\ \E i, j \in 1..Len(incompleteTeams), r, l \in Lanes :
       /\ incompleteTeams[i].id # currentTeamId
       /\ incompleteTeams[i].team[r] \in availableChampions[r]
       /\ incompleteTeams[i].team[r] \notin GetAvailableChampions(r)
       /\ incompleteTeams[j].id = currentTeamId
       /\ incompleteTeams[j].team[l] \in GetAvailableChampions(l)

\* C3: a champion picked in one session stays out of getAvailableChampions
\* of a second session on the same storage until the first session locks in
\* or is discarded.  Stated for the second tab and the picks the first tab
\* has saved in its snapshots.
C3_OtherSessionExcludes ==
  \A i \in 1..Len(incompleteTeams), l \in Lanes :
    incompleteTeams[i].team[l] # NoChampion =>
      incompleteTeams[i].team[l] \notin OtherGetAvailableChampions(l)

\* C4: in one session at most one rerandomizeLane is accepted, also across
\* saveAndStartNewTeam and loadIncompleteTeam: an accepted call takes
\* hasUsedReroll from false to true in a session that had none before, the
\* flag stays set whenever that session is current, and a call made with the
\* flag set is rejected and leaves the store as it was.
C4_OneRerollPerSession ==
  [][ /\ (lastOp'.op = "rerandomizeLane" /\ lastOp'.accepted) =>
          (~hasUsedReroll /\ hasUsedReroll'
             /\ currentTeamId' \notin rerolledSessions)
      /\ (lastOp'.op = "rerandomizeLane" /\ hasUsedReroll) =>
          (~lastOp'.accepted /\ UNCHANGED storeVars)
      /\ currentTeamId' \in rerolledSessions' => hasUsedReroll']_vars

\* a session that has rerolled, with another session set aside, has just had
\* a further rerandomizeLane rejected
C4_Witness ==
  /\ lastOp.op = "rerandomizeLane"
  /\ ~lastOp.accepted
  /\ hasUsedReroll
  /\ currentTeamId \in rerolledSessions
  /\ \E i \in 1..Len(incompleteTeams) : incompleteTeams[i].id # currentTeamId

\* some lane has a reroll offer that nobody has resolved
UnresolvedReroll ==
  \E l \in DOMAIN rerolledLanes :
    l \in DOMAIN pendingSelections /\ pendingSelections[l] = NoChampion

\* C5: lockInTeam called while a reroll offer is unresolved is rejected: no
\* store state changes and nothing is written to the backend.
C5_LockInRejectedWhilePending ==
  [][(lastOp'.op = "lockInTeam" /\ UnresolvedReroll) =>
       (~lastOp'.accepted /\ UNCHANGED <<serverVars, storeVars>>)]_vars

\* lockInTeam has just been rejected over an unresolved offer, in a draft
\* that has a pick and a saved snapshot
C5_Witness ==
  /\ lastOp.op = "lockInTeam"
  /\ ~lastOp.accepted
  /\ UnresolvedReroll
  /\ \E i \in 1..Len(incompleteTeams) : incompleteTeams[i].id = currentTeamId

\* C6: canLockIn is true exactly when no role has an unresolved reroll offer:
\* false once rerandomizeLane has been accepted, true again once
\* selectRerollChampion has resolved the offer.
C6_CanLockInIffResolved ==
  /\ CanLockIn <=> DOMAIN rerolledLanes = {}
  /\ (lastOp.op = "rerandomizeLane" /\ lastOp.accepted) => ~CanLockIn
  /\ lastOp.op = "selectRerollChampion" => CanLockIn

\* an offer has just been resolved and canLockIn is true again
C6_Witness ==
  /\ lastOp.op = "selectRerollChampion"
  /\ hasUsedReroll
  /\ lastOp.lane \in DOMAIN pendingSelections
  /\ CanLockIn

C8_DeletedTeamRestored ==
  (lastOp.op = "deleteSavedTeam" /\ lastOp.delivered) =>
    \A c \in TeamChampions(lastOp.team) :
      \A l \in RoleLanes(c) :
        c \in GetAvailable(availableChampionsCollection, l)

\* C9: once lockInTeam or createAdminTeam has completed, with every removal
\* request delivered, each champion of the team is unavailable in the
\* backend for each lane it can play, not only for the lane it was picked in.
C9_RemovedForEveryRole ==
  (lastOp.op \in {"lockInTeam", "createAdminTeam"}
     /\ lastOp.accepted /\ lastOp.delivered) =>
    \A c \in TeamChampions(lastOp.team) :
      \A l \in RoleLanes(c) :
        c \notin GetAvailable(availableChampionsCollection, l)

\* the body of a saveTeam request lacks the team or the timestamp
InvalidBody == ~lastOp.hasTeam \/ lastOp.timestamp = 0

\* C10: after an accepted saveTeam the list of GET /api/teams has an entry
\* with the timestamp of the saved team; a saveTeam whose body lacks the
\* team or the timestamp is rejected and leaves the teams collection as it
\* was.
C10_SaveTeamRoundTrip ==
  [][lastOp'.op = "saveTeam" =>
       /\ lastOp'.accepted =>
            \E i \in 1..Len(GetTeamsEndpoint(teamsCollection')) :
              GetTeamsEndpoint(teamsCollection')[i].timestamp =
                lastOp'.timestamp
       /\ InvalidBody' => (~lastOp'.accepted /\ UNCHANGED teamsCollection)]_vars

\* a saveTeam has just been accepted into a collection that held a team
\* already, and the list has its timestamp
C10_Witness ==
  /\ lastOp.op = "saveTeam"
  /\ lastOp.accepted
  /\ Len(teamsCollection) > 1
  /\ \E i \in 1..Len(GetTeamsEndpoint(teamsCollection)) :
       GetTeamsEndpoint(teamsCollection)[i].timestamp = lastOp.timestamp

\* the candidates of a lane, written out: the loaded list of the lane
\* without the champions held by snapshots of other sessions
Candidates(lane) ==
  {c \in availableChampions[lane] :
     \A i \in 1..Len(incompleteTeams) :
       incompleteTeams[i].id # currentTeamId =>
         \A l \in Lanes : incompleteTeams[i].team[l] # c}

\* C11: randomizeChampion(role) sets the selection of the role to a member
\* of getAvailableChampions(role) as it was at the call and touches no other
\* selection, every member of that list can be the result, and a call that
\* finds the list empty changes no state.
C11_PickFromAvailable ==
  [][ /\ \A lane \in Lanes : \A c \in Candidates(lane) :
           (timers < MaxTimers /\ CanSave(currentTeamId)) =>
             ENABLED (RandomizeChampion(lane) /\ selectedChampions'[lane] = c)
      /\ (lastOp'.op = "randomizeChampion" /\ lastOp'.accepted) =>
           /\ selectedChampions'[lastOp'.lane] = lastOp'.champion
           /\ lastOp'.champion \in Candidates(lastOp'.lane)
           /\ \A l \in Lanes \ {lastOp'.lane} :
                selectedChampions'[l] = selectedChampions[l]
      /\ (lastOp'.op = "randomizeChampion" /\ ~lastOp'.accepted) =>
           /\ \E lane \in Lanes : Candidates(lane) = {}
           /\ UNCHANGED <<serverVars, storeVars>>
      /\ \A lane \in Lanes :
           Candidates(lane) = {} =>
             ~ENABLED (RandomizeChampion(lane) /\ lastOp'.accepted) ]_vars

\* randomizeChampion has just chosen among two candidates
C11_Witness ==
  /\ lastOp.op = "randomizeChampion"
  /\ lastOp.accepted
  /\ selectedChampions[lastOp.lane] = lastOp.champion
  /\ Cardinality(Candidates(lastOp.lane)) > 1

\* the timestamps of a list of teams
Timestamps(teams) == {teams[i].timestamp : i \in 1..Len(teams)}

C13_FailedLoadKeepsCache ==
  [][(lastOp'.op = "loadSavedTeams" /\ ~lastOp'.accepted) =>
       UNCHANGED <<savedTeams, serverVars, draftVars, incompleteTeams,
                   playedChampions, availableChampions>>]_vars

\* a fetch has just failed while the local list held a team that the
\* backend no longer has
C13_Witness ==
  /\ lastOp.op = "loadSavedTeams"
  /\ ~lastOp.accepted
  /\ \E i \in 1..Len(savedTeams) :
       savedTeams[i].timestamp \notin Timestamps(teamsCollection)

C15_ResetByRolesKeepsLedger ==
  [][lastOp'.op = "resetChampionsByRoles" =>
       /\ UNCHANGED <<savedTeams, teamsCollection>>
       /\ lastOp'.delivered =>
            \A r \in lastOp'.roles : \A c \in ChampionPool(r) :
              \A l \in RoleLanes(c) :
                c \in GetAvailable(availableChampionsCollection', l)]_vars

\* the part of C15 about availability alone
ResetByRolesMakesAvailable ==
  (lastOp.op = "resetChampionsByRoles" /\ lastOp.delivered) =>
    \A r \in lastOp.roles : \A c \in ChampionPool(r) :
      \A l \in RoleLanes(c) :
        c \in GetAvailable(availableChampionsCollection, l)

\* the mapping a lock-in saves: the selections, with each resolved pending
\* selection in the place of the selection of its lane
FinalMapping ==
  [l \in Lanes |->
     IF l \in DOMAIN pendingSelections /\ pendingSelections[l] # NoChampion
       THEN pendingSelections[l]
       ELSE selectedChampions[l]]

\* C16: an accepted lockInTeam leaves the draft empty (no selection, no
\* randomized lane, no reroll or pending entry, hasUsedReroll false,
\* currentTeamId null), takes the snapshot of the session, and nothing else,
\* out of incompleteTeams, and leaves in savedTeams, next to the teams it
\* had, exactly one new team, whose mapping is the final mapping of the
\* session.
C16_LockInClearsAndSaves ==
  [][(lastOp'.op = "lockInTeam" /\ lastOp'.accepted) =>
       /\ selectedChampions' = EmptyTeam
       /\ randomizedLanes' = {}
       /\ rerolledLanes' = EmptyMap
       /\ pendingSelections' = EmptyMap
       /\ ~hasUsedReroll'
       /\ currentTeamId' = NoId
       /\ ~displayingSavedTeam'
       /\ SeqToSet(incompleteTeams') =
            {t \in SeqToSet(incompleteTeams) :
               currentTeamId = NoId \/ t.id # currentTeamId}
       /\ lastOp'.timestamp \notin Timestamps(savedTeams)
       /\ Timestamps(savedTeams') =
            Timestamps(savedTeams) \cup {lastOp'.timestamp}
       /\ Len(savedTeams') = Len(savedTeams) + 1
       /\ \A i \in 1..Len(savedTeams') :
            savedTeams'[i].timestamp = lastOp'.timestamp =>
              savedTeams'[i].team = FinalMapping]_vars

\* a lock-in has just saved a team with a champion and cleared the draft,
\* while the snapshot of another session is still there
C16_Witness ==
  /\ lastOp.op = "lockInTeam"
  /\ lastOp.accepted
  /\ TeamChampions(lastOp.team) # {}
  /\ currentTeamId = NoId
  /\ selectedChampions = EmptyTeam
  /\ incompleteTeams # <<>>
  /\ \E i \in 1..Len(savedTeams) :
       /\ savedTeams[i].timestamp = lastOp.timestamp
       /\ savedTeams[i].team = lastOp.team

\* the draft is empty
DraftEmpty ==
  /\ selectedChampions = EmptyTeam
  /\ randomizedLanes = {}
  /\ rerolledLanes = EmptyMap
  /\ pendingSelections = EmptyMap
  /\ ~hasUsedReroll
  /\ currentTeamId = NoId

\* C17: when a removal request or the saveTeam request of an accepted
\* lockInTeam fails, the call still completes with the draft cleared and
\* the locked team in savedTeams, and a later loadSavedTeams, successful or
\* not, keeps every local team that the backend does not have.
C17_FailedWritesKeepLocalOutcome ==
  [][ /\ (/\ lastOp'.op = "lockInTeam"
          /\ lastOp'.accepted
          /\ \/ ~lastOp'.delivered
             \/ lastOp'.timestamp \notin Timestamps(teamsCollection')) =>
           /\ DraftEmpty'
           /\ \E i \in 1..Len(savedTeams') :
                /\ savedTeams'[i].timestamp = lastOp'.timestamp
                /\ savedTeams'[i].team = FinalMapping
      /\ lastOp'.op = "loadSavedTeams" =>
           \A i \in 1..Len(savedTeams) :
             savedTeams[i].timestamp \notin Timestamps(teamsCollection) =>
               savedTeams[i] \in SeqToSet(savedTeams') ]_vars

\* a successful loadSavedTeams has just kept a locked team with a champion
\* that never reached the backend, and the draft is still empty
C17_Witness ==
  /\ lastOp.op = "loadSavedTeams"
  /\ lastOp.accepted
  /\ DraftEmpty
  /\ \E i \in 1..Len(savedTeams) :
       /\ ~savedTeams[i].hasId
       /\ savedTeams[i].timestamp \notin Timestamps(teamsCollection)
       /\ TeamChampions(savedTeams[i].team) # {}

\* an accepted lockInTeam of a team with a champion has just completed with
\* every removal delivered and the team saved in the backend
LockedAndWritten ==
  /\ lastOp.op = "lockInTeam"
  /\ lastOp.accepted
  /\ TeamChampions(lastOp.team) # {}
  /\ lastOp.delivered
  /\ lastOp.timestamp \in Timestamps(teamsCollection)

\* C18: after an accepted lockInTeam whose remote writes succeeded the
\* client eventually reloads the ledger (loadSavedTeams) and eventually
\* reloads the availability lists (loadAvailableChampions or
\* loadAllAvailableChampions).
C18_ReloadsBothStores ==
  /\ LockedAndWritten ~> lastOp.op = "loadSavedTeams"
  /\ LockedAndWritten ~>
       lastOp.op \in {"loadAvailableChampions", "loadAllAvailableChampions"}

\* the part of C18 about the ledger alone
LedgerReloaded == LockedAndWritten ~> lastOp.op = "loadSavedTeams"

\* the operations of a draft before lock-in
DraftOps ==
  {"randomizeChampion", "rerandomizeLane", "selectRerollChampion",
   "saveIncompleteTeam", "saveAndStartNewTeam", "loadIncompleteTeam",
   "deleteIncompleteTeam"}

C20_OnlyOfferedChoiceAccepted ==
  [][ ( /\ lastOp'.op = "selectRerollChampion"
        /\ ~ /\ lastOp'.lane \in DOMAIN rerolledLanes
             /\ lastOp'.champion \in
                  {rerolledLanes[lastOp'.lane].original,
                   rerolledLanes[lastOp'.lane].rerolled} )
      => UNCHANGED <<selectedChampions, pendingSelections,
                     rerolledLanes>> ]_vars

\* C21: a call of randomizeChampion for a role that is already randomized in
\* the current session leaves that role's selection and the rest of the
\* session unchanged.
C21_RandomizedRoleNotPickedAgain ==
  [][ ( /\ lastOp'.op = "randomizeChampion"
        /\ lastOp'.accepted
        /\ lastOp'.lane \in randomizedLanes )
      => UNCHANGED <<selectedChampions, randomizedLanes, rerolledLanes,
                     pendingSelections, hasUsedReroll, currentTeamId>> ]_vars

\* the availability records of a champion
RecordsOf(c) == {d \in availableChampionsCollection : d.champion = c}

\* C22: for every role, a champion of the role's pool without an availability
\* record is in the backend's candidate list of the role (per-role and batch
\* reads), and a champion with a record is in the list only if the record
\* says isAvailable = true.
C22_DefaultOpen ==
  \A lane \in Lanes : \A c \in ChampionPool(lane) :
    LET perRole == c \in GetAvailable(availableChampionsCollection, lane)
        batch == c \in GetAvailableBatch(availableChampionsCollection)[lane]
    IN  /\ RecordsOf(c) = {} => (perRole /\ batch)
        /\ RecordsOf(c) # {} =>
             /\ perRole => \A d \in RecordsOf(c) : d.isAvailable
             /\ batch => \A d \in RecordsOf(c) : d.isAvailable

\* the reading that holds: only the global record of the champion, or else
\* its record for the role that is read, decides
DefaultOpenForApplicableRecord ==
  \A lane \in Lanes : \A c \in ChampionPool(lane) :
    LET applicable == {d \in RecordsOf(c) : d.lane \in {NoLane, lane}}
        perRole == c \in GetAvailable(availableChampionsCollection, lane)
        batch == c \in GetAvailableBatch(availableChampionsCollection)[lane]
    IN  /\ perRole = batch
        /\ perRole = (\A d \in applicable : d.isAvailable)

\* C23: after setChampionUnavailable(champion) the champion is in the
\* backend's candidate list of no role it can play, in the per-role read and
\* in the batch read, whatever record it had before.
C23_UnavailableForEveryRole ==
  [][ lastOp'.op = "setChampionUnavailable" =>
        \A lane \in GetChampionLanes(lastOp'.champion) :
          /\ lastOp'.champion \notin
               GetAvailable(availableChampionsCollection', lane)
          /\ lastOp'.champion \notin
               GetAvailableBatch(availableChampionsCollection')[lane] ]_vars

\* A, which plays two roles, has been set unavailable in a database whose
\* other documents are of the per-lane structure
C23_Witness ==
  /\ lastOp.op = "setChampionUnavailable"
  /\ lastOp.champion = "A"
  /\ Cardinality(GetChampionLanes("A")) > 1
  /\ \E d \in availableChampionsCollection :
       d.champion # "A" /\ d.lane # NoLane
  /\ \A lane \in Lanes :
       "A" \notin GetAvailable(availableChampionsCollection, lane)

\* restoreAvailableChampion, resetAvailableChampions and
\* setChampionUnavailable applied twice give what they give applied once
AvailabilityRetrySafe ==
  LET coll == availableChampionsCollection
  IN  /\ \A lane \in Lanes : \A c \in Champions :
           RestoreEndpoint(RestoreEndpoint(coll, lane, c).coll, lane, c).coll
             = RestoreEndpoint(coll, lane, c).coll
      /\ \A lane \in Lanes :
           ResetEndpoint(ResetEndpoint(coll, lane).coll, lane).coll
             = ResetEndpoint(coll, lane).coll
      /\ \A c \in Champions :
           SetUnavailableEndpoint(SetUnavailableEndpoint(coll, c), c)
             = SetUnavailableEndpoint(coll, c)

\* deleteTeam and deleteAllTeams applied twice give what they give applied
\* once
LedgerRetrySafe ==
  /\ \A ts \in 1..MaxTime :
       DeleteTeamEndpoint(DeleteTeamEndpoint(teamsCollection, ts).coll,
                          ts).coll
         = DeleteTeamEndpoint(teamsCollection, ts).coll
  /\ DeleteAllTeamsEndpoint(DeleteAllTeamsEndpoint(teamsCollection))
       = DeleteAllTeamsEndpoint(teamsCollection)

\* C24: every backend operation other than saveTeam and
\* removeAvailableChampion is safe to retry: restoreAvailableChampion,
\* resetAvailableChampions, setChampionUnavailable, deleteTeam and
\* deleteAllTeams applied twice in a row leave the availability and teams
\* collections as applying them once does.
C24_RetrySafe == AvailabilityRetrySafe /\ LedgerRetrySafe

\* no two entries of the list carry the same timestamp
UniqueTimestamps(teams) ==
  \A i, j \in 1..Len(teams) :
    teams[i].timestamp = teams[j].timestamp => i = j

\* C25: timestamp is a unique key of saved teams: neither the teams
\* collection of the backend nor the local savedTeams list holds two entries
\* with the same timestamp.
C25_TimestampIsKey ==
  /\ UniqueTimestamps(teamsCollection)
  /\ UniqueTimestamps(savedTeams)

\* C26: resetAllChampions only clears local state: it deletes no saved team
\* from the teams collection of the backend.
C26_ResetAllKeepsRemoteTeams ==
  [][ lastOp'.op = "resetAllChampions" => UNCHANGED teamsCollection ]_vars

\* C27: every team locked in by a client eventually appears in the
\* savedTeams list of every other client that keeps running its periodic
\* loadSavedTeams.
C27_LockedTeamReachesOthers ==
  \A ts \in 1..MaxTime :
    (lastOp.op = "lockInTeam" /\ lastOp.accepted /\ lastOp.timestamp = ts
       /\ TeamChampions(lastOp.team) # {})
      ~> (ts \in Timestamps(otherSavedTeams))

\* a locked team that did reach the teams collection appears in the other
\* client's list, unless it is deleted from the collection first
SavedTeamReachesOthers ==
  \A ts \in 1..MaxTime :
    (lastOp.op = "lockInTeam" /\ lastOp.accepted /\ lastOp.timestamp = ts
       /\ ts \in Timestamps(teamsCollection))
      ~> (\/ ts \in Timestamps(otherSavedTeams)
          \/ ts \notin Timestamps(teamsCollection))

\* C28: within one client no randomizeChampion, rerandomizeLane,
\* selectRerollChampion or lockInTeam takes effect while an earlier
\* lockInTeam call has not yet performed all of its local state updates.
C28_NoOverlapWithLockIn ==
  [][ ( /\ lastOp'.op \in {"randomizeChampion", "rerandomizeLane",
                           "selectRerollChampion", "lockInTeam"}
        /\ lastOp'.accepted )
      => ~pendingLockIn.active ]_vars

\* C29: an accepted rerandomizeLane(role) records the offer {original,
\* rerolled} with original the role's selection and rerolled a member of
\* getAvailableChampions(role) other than original, sets
\* pendingSelections[role] to null and leaves selectedChampions unchanged;
\* with no selection for the role, or no candidate other than the original,
\* the call is not accepted and leaves the state unchanged.
C29_RerollRecordsOffer ==
  [][ /\ (lastOp'.op = "rerandomizeLane" /\ lastOp'.accepted) =>
           LET role == lastOp'.lane
           IN  /\ selectedChampions[role] # NoChampion
               /\ role \in DOMAIN rerolledLanes'
               /\ rerolledLanes'[role].original = selectedChampions[role]
               /\ rerolledLanes'[role].rerolled \in
                    Candidates(role) \ {selectedChampions[role]}
               /\ role \in DOMAIN pendingSelections'
               /\ pendingSelections'[role] = NoChampion
               /\ UNCHANGED selectedChampions
      /\ (lastOp'.op = "rerandomizeLane" /\ ~lastOp'.accepted) =>
           UNCHANGED <<serverVars, storeVars>>
      /\ \A lane \in Lanes :
           ( \/ selectedChampions[lane] = NoChampion
             \/ Candidates(lane) \ {selectedChampions[lane]} = {} )
           => ~ENABLED (RerandomizeLane(lane) /\ lastOp'.accepted) ]_vars

\* an offer has just been recorded: the selection stands, the rerolled
\* champion is another one, the choice is open
C29_Witness ==
  /\ lastOp.op = "rerandomizeLane"
  /\ lastOp.accepted
  /\ lastOp.lane \in DOMAIN rerolledLanes
  /\ rerolledLanes[lastOp.lane].original = selectedChampions[lastOp.lane]
  /\ rerolledLanes[lastOp.lane].rerolled # selectedChampions[lastOp.lane]
  /\ pendingSelections[lastOp.lane] = NoChampion
  /\ \E lane \in Lanes : selectedChampions[lane] = NoChampion

\* the session id is kept by every pick, reroll and resolution of a session
\* that has one, and incompleteTeams holds at most one snapshot per id
SessionIdKept ==
  [][ /\ ( /\ lastOp'.op \in {"randomizeChampion", "rerandomizeLane",
                               "selectRerollChampion"}
            /\ lastOp'.accepted
            /\ currentTeamId # NoId ) => currentTeamId' = currentTeamId
      /\ \A i, j \in 1..Len(incompleteTeams') :
           incompleteTeams'[i].id = incompleteTeams'[j].id => i = j ]_vars

\* nothing is picked, offered or resolved in the current session
NoPicks ==
  /\ selectedChampions = EmptyTeam
  /\ randomizedLanes = {}
  /\ rerolledLanes = EmptyMap
  /\ pendingSelections = EmptyMap
  /\ ~hasUsedReroll

\* the session id is null in an empty session, and only a pick (or resuming
\* a set-aside session) gives a session without an id its id
SessionIdFromPick ==
  [][ /\ NoPicks' => currentTeamId' = NoId
      /\ (currentTeamId = NoId /\ currentTeamId' # NoId) =>
           lastOp'.op \in {"randomizeChampion", "loadIncompleteTeam"} ]_vars

\* C30: currentTeamId is null in an Empty session, is allocated by the first
\* accepted pick, stays the same through every later pick, reroll and
\* resolution of the session, and incompleteTeams holds at most one snapshot
\* per session id.
C30_SessionIdLifecycle == SessionIdFromPick /\ SessionIdKept

\* the snapshots stored under the given id
SnapshotOf(its, id) ==
  {its[i] : i \in {j \in 1..Len(its) : its[j].id = id}}

\* the snapshot holds the session as the given variables' values describe it
Holds(t, id, sel, rer, pend, used) ==
  /\ t.id = id
  /\ t.team = sel
  /\ t.rerolledLanes = rer
  /\ t.pendingSelections = pend
  /\ t.hasUsedReroll = used

C32_BatchEqualsPerRole ==
  \A lane \in Lanes :
    GetAvailableBatchIn(championRolesCollection,
                        availableChampionsCollection)[lane]
      = GetAvailableIn(championRolesCollection,
                       availableChampionsCollection, lane)

\* the two reads agree on every champion that has a name
BatchEqualsPerRoleNamed ==
  \A lane \in Lanes :
    GetAvailableBatchIn(championRolesCollection,
                        availableChampionsCollection)[lane]
      = GetAvailableIn(championRolesCollection,
                       availableChampionsCollection, lane) \ {Unnamed}

\* over the configuration the store was loaded from, the reads with and
\* without the roles argument are the same
ReadsOverDefaultRoles ==
  \A lane \in Lanes :
    /\ GetAvailableIn(DefaultRoles, availableChampionsCollection, lane)
         = GetAvailable(availableChampionsCollection, lane)
    /\ GetAvailableBatchIn(DefaultRoles, availableChampionsCollection)[lane]
         = GetAvailableBatch(availableChampionsCollection)[lane]

\* C33: removeAvailableChampion(lane, c) and restoreAvailableChampion(lane,
\* c) take effect also when c's record has the global (lane-less) form
\* that resetAvailableChampions and setChampionUnavailable write: after the
\* remove c is not a candidate of the lane, after the restore it is.
C33_RemoveRestoreAnyRecord ==
  [][ (\E d \in availableChampionsCollection :
         d.champion = lastOp'.champion /\ d.lane = NoLane) =>
        /\ lastOp'.op = "removeAvailableChampion" =>
             lastOp'.champion \notin
               GetAvailable(availableChampionsCollection', lastOp'.lane)
        /\ lastOp'.op = "restoreAvailableChampion" =>
             lastOp'.champion \in
               GetAvailable(availableChampionsCollection', lastOp'.lane)
    ]_vars

\* remove and restore take effect on a champion whose document carries the
\* lane of the request
RemoveRestoreOwnLaneRecord ==
  [][ \A d \in availableChampionsCollection :
        (d.champion = lastOp'.champion /\ d.lane = lastOp'.lane) =>
          /\ lastOp'.op = "removeAvailableChampion" =>
               lastOp'.champion \notin
                 GetAvailable(availableChampionsCollection', lastOp'.lane)
          /\ lastOp'.op = "restoreAvailableChampion" =>
               lastOp'.champion \in
                 GetAvailable(availableChampionsCollection', lastOp'.lane)
    ]_vars

\* C34: the local availability update at the end of lockInTeam never undoes
\* a change of availableChampions made while its network calls were in
\* flight: the lists are as they were just before the update, without the
\* team's own champions.
C34_LockInKeepsRefresh ==
  [][ lastOp'.op = "lockInTeamResume" =>
        availableChampions' =
          RemoveLocally(availableChampions, pendingLockIn.champions) ]_vars

\* C35: once deleteSavedTeam(t) has completed and the backend holds no team
\* with timestamp t, savedTeams has no entry with timestamp t, and none
\* reappears later: a timestamp enters savedTeams only
\* with a team the backend holds at that moment or with the team a lock-in or
\* an admin creation has just produced, whatever loadSavedTeams call is in
\* flight.
C35_DeletedStaysDeleted ==
  [][ /\ ( /\ lastOp'.op = "deleteSavedTeam"
            /\ lastOp'.timestamp \notin Timestamps(teamsCollection') )
           => lastOp'.timestamp \notin Timestamps(savedTeams')
      /\ \A ts \in Timestamps(savedTeams') \ Timestamps(savedTeams) :
           \/ ts \in Timestamps(teamsCollection')
           \/ /\ lastOp'.op \in {"lockInTeam", "createAdminTeam",
                                 "createAdminTeamFromSavedTeam"}
              /\ lastOp'.timestamp = ts ]_vars

\* C36: the delayed save scheduled by randomizeChampion never leaves a
\* snapshot of an empty session: after it has run, every snapshot in
\* incompleteTeams holds at least one selected champion.
C36_NoEmptySnapshot ==
  [][ lastOp'.op = "saveIncompleteTeam" =>
        \A i \in 1..Len(incompleteTeams') :
          TeamChampions(incompleteTeams'[i].team) # {} ]_vars

SnapshotIds(its) == {its[i].id : i \in 1..Len(its)}

\* C37: with two tabs over the same localStorage, a tab that saves the
\* snapshot of its session, or deletes its own session, never removes the
\* stored snapshot of the other tab's session.
C37_TabsKeepEachOthersSnapshot ==
  [][ /\ ( /\ \/ lastOp'.op = "saveIncompleteTeam"
               \/ /\ lastOp'.op = "deleteIncompleteTeam"
                  /\ currentTeamId # NoId
                  /\ currentTeamId' = NoId
            /\ otherCurrentTeamId # currentTeamId
            /\ otherCurrentTeamId \in SnapshotIds(storedIncompleteTeams) )
           => otherCurrentTeamId \in SnapshotIds(storedIncompleteTeams')
      /\ ( /\ lastOp'.op \in {"otherSaveIncompleteTeam",
                                "otherDeleteIncompleteTeam"}
            /\ currentTeamId \in SnapshotIds(storedIncompleteTeams) )
           => currentTeamId \in SnapshotIds(storedIncompleteTeams') ]_vars

DistinctRoles(team) ==
  \A l1, l2 \in Lanes :
    (l1 # l2 /\ team[l1] # NoChampion) => team[l1] # team[l2]

\* C38: no champion is selected for two roles of the same draft: the
\* non-null champions of selectedChampions, and of every saved team that
\* lockInTeam produced, are pairwise distinct.
C38_OneRolePerChampion ==
  /\ DistinctRoles(selectedChampions)
  /\ \A i \in 1..Len(savedTeams) :
       ~savedTeams[i].isAdminCreated => DistinctRoles(savedTeams[i].team)

\* C39: every champion of a team that lockInTeam saves was drawn for its
\* role by the session that is locked: the role is one randomizeChampion
\* has marked in randomizedLanes or one for which rerandomizeLane has opened
\* an offer in pendingSelections.  displayTeam cannot put a champion into a
\* locked team.
C39_LockedChampionsWereDrawn ==
  [][ (lastOp'.op = "lockInTeam" /\ lastOp'.accepted) =>
        \A l \in Lanes :
          lastOp'.team[l] # NoChampion =>
            (l \in randomizedLanes \/ l \in DOMAIN pendingSelections) ]_vars

====
